---- MODULE Spec2Model ----
(***************************************************************************)
(* A model of qwik-analyzer: the cross-file component-presence resolver    *)
(* and source patcher (src/src/lib.rs, src/src/component_analyzer/*.rs).   *)
(*                                                                         *)
(* Source text is a sequence of bytes (ASCII text, so every offset is a    *)
(* character boundary); offsets are 0-based byte offsets as in the code,   *)
(* so text[start..end] is SubSeq(text, start + 1, end).                    *)
(***************************************************************************)
EXTENDS Integers, Sequences, FiniteSets, TLC

VARIABLES fs, op, out

vars == <<fs, op, out>>

(***************************************************************************)
(* Bounds of the model.                                                    *)
(***************************************************************************)
MaxLen == 3

MaxPatches == 2

(***************************************************************************)
(* Generic helpers on sequences.                                           *)
(***************************************************************************)
RECURSIVE SeqsUpTo(_, _)
SeqsUpTo(S, n) ==
  IF n = 0 THEN {<<>>}
  ELSE LET shorter == SeqsUpTo(S, n - 1)
       IN  shorter \cup {Append(s, x) : s \in {t \in shorter : Len(t) = n - 1}, x \in S}

Perms(n) == {p \in [1..n -> 1..n] : \A i, j \in 1..n : i # j => p[i] # p[j]}

Reorder(s, p) == [i \in 1..Len(s) |-> s[p[i]]]

RECURSIVE Flatten(_)
Flatten(ss) == IF ss = <<>> THEN <<>> ELSE Head(ss) \o Flatten(Tail(ss))

\* lib.rs Transformation: a half-open byte range and its replacement.
Transformation(s, e, r) == [start |-> s, end |-> e, replacement |-> r]

(***************************************************************************)
(* Strings.  A string is the sequence of its bytes, each a one-character   *)
(* string: "N.T" is <<"N", ".", "T">>.  Texts are written in the model as  *)
(* sequences of symbols (words and punctuation); Spelling gives the bytes  *)
(* of a symbol as it stands in the text: the keywords export and const are *)
(* followed by one space, nothing else is, and a symbol of one character   *)
(* is its own byte.                                                        *)
(***************************************************************************)
Spelling(sym) ==
  CASE sym = "export" -> <<"e", "x", "p", "o", "r", "t", " ">>
    [] sym = "const" -> <<"c", "o", "n", "s", "t", " ">>
    [] sym = "import" -> <<"i", "m", "p", "o", "r", "t">>
    [] sym = "from" -> <<"f", "r", "o", "m">>
    [] sym = "component$" -> <<"c", "o", "m", "p", "o", "n", "e", "n", "t", "$">>
    [] sym = "isComponentPresent" -> <<"i", "s", "C", "o", "m", "p", "o", "n", "e", "n", "t", "P", "r", "e", "s", "e", "n", "t">>
    [] sym = "props" -> <<"p", "r", "o", "p", "s">>
    [] sym = "any" -> <<"a", "n", "y">>
    [] sym = "__qwik_analyzer_has_" -> <<"_", "_", "q", "w", "i", "k", "_", "a", "n", "a", "l", "y", "z", "e", "r", "_", "h", "a", "s", "_">>
    [] sym = "true" -> <<"t", "r", "u", "e">>
    [] sym = "false" -> <<"f", "a", "l", "s", "e">>
    [] sym = "=>" -> <<"=", ">">>
    [] sym = "./" -> <<".", "/">>
    [] sym = "~/" -> <<"~", "/">>
    [] sym = "</" -> <<"<", "/">>
    [] sym = "Child" -> <<"C", "h", "i", "l", "d">>
    [] sym = "Root" -> <<"R", "o", "o", "t">>
    [] sym = "NS" -> <<"N", "S">>
    [] sym = "Foo" -> <<"F", "o", "o">>
    [] sym = "Bar" -> <<"B", "a", "r">>
    [] sym = "Link" -> <<"L", "i", "n", "k">>
    [] sym = "Button" -> <<"B", "u", "t", "t", "o", "n">>
    [] sym = "Input" -> <<"I", "n", "p", "u", "t">>
    [] sym = "Label" -> <<"L", "a", "b", "e", "l">>
    [] sym = "Object" -> <<"O", "b", "j", "e", "c", "t">>
    [] sym = "div" -> <<"d", "i", "v">>
    [] sym = "other" -> <<"o", "t", "h", "e", "r">>
    [] sym = "pkg" -> <<"p", "k", "g">>
    [] sym = "..." -> <<".", ".", ".">>
    [] sym = "args" -> <<"a", "r", "g", "s">>
    [] OTHER -> <<sym>>

RECURSIVE Spell(_)
Spell(syms) == IF syms = <<>> THEN <<>> ELSE Spelling(Head(syms)) \o Spell(Tail(syms))

\* The string that is the name of an identifier.
Str(ident) == Spelling(ident)

\* str::contains('.')
ContainsDot(s) == \E i \in 1..Len(s) : s[i] = "."

\* str::split('.').collect(): the pieces between the dots, empty pieces kept.
RECURSIVE SplitDot(_)
SplitDot(s) ==
  IF ~ContainsDot(s) THEN <<s>>
  ELSE LET i == CHOOSE k \in 1..Len(s) : s[k] = "." /\ \A j \in 1..k - 1 : s[j] # "."
       IN  <<SubSeq(s, 1, i - 1)>> \o SplitDot(SubSeq(s, i + 1, Len(s)))

\* format!("{}.{}", a, b)
Dotted(a, b) == a \o <<".">> \o b

\* str::replace(".", "_")
ReplaceDots(s) == [i \in 1..Len(s) |-> IF s[i] = "." THEN "_" ELSE s[i]]

(***************************************************************************)
(* The file tree.  The project root holds package.json, src/ and           *)
(* node_modules/.  src/ holds, per stem s, nothing, a source file s.tsx    *)
(* (readable or not) or a directory s/ that holds at most an index.ts.     *)
(* node_modules/ holds, per package p, nothing or a package whose main     *)
(* file is index.js.                                                       *)
(***************************************************************************)
SrcFile(s) == [loc |-> "src", stem |-> s, leaf |-> "file"]

SrcDir(s) == [loc |-> "src", stem |-> s, leaf |-> "dir"]

SrcIndex(s) == [loc |-> "src", stem |-> s, leaf |-> "index"]

PkgMain(p) == [loc |-> "node_modules", stem |-> p, leaf |-> "index"]

Absent == [kind |-> "absent"]

Unreadable == [kind |-> "unreadable"]

File(src) == [kind |-> "file", src |-> src]

Dir(index) == [kind |-> "dir", index |-> index]

\* Module specifiers as written in source: "./x", "~/x" and a bare package "p".
Relative(x) == [form |-> "relative", stem |-> x]

Alias(x) == [form |-> "alias", stem |-> x]

Bare(p) == [form |-> "bare", stem |-> p]

Ok(v) == [tag |-> "Ok", val |-> v]

Err == [tag |-> "Err"]

Stems(tree) == DOMAIN tree.files

Packages(tree) == DOMAIN tree.packages

\* The entry a path names, Absent when nothing is there.
EntryAt(tree, path) ==
  IF path.loc = "node_modules"
  THEN IF path.stem \in Packages(tree) THEN tree.packages[path.stem] ELSE Absent
  ELSE IF path.stem \notin Stems(tree) THEN Absent
       ELSE LET e == tree.files[path.stem]
            IN  CASE path.leaf = "file" -> IF e.kind \in {"file", "unreadable"} THEN e ELSE Absent
                  [] path.leaf = "dir" -> IF e.kind = "dir" THEN e ELSE Absent
                  [] OTHER -> IF e.kind = "dir" THEN e.index ELSE Absent

\* Path::exists
Exists(tree, path) == EntryAt(tree, path).kind # "absent"

\* Path::is_file
IsFile(tree, path) == path.leaf # "dir" /\ Exists(tree, path)

\* fs::read_to_string: fails on a missing file, a directory and a file that
\* is not readable UTF-8.
ReadToString(tree, path) ==
  IF path.leaf # "dir" /\ EntryAt(tree, path).kind = "file"
  THEN Ok(EntryAt(tree, path).src)
  ELSE Err

\* Whether the file is directly inside src/ (and not in a subdirectory or a
\* package).
InSrcTop(path) == path.loc = "src" /\ path.leaf \in {"file", "dir"}

\* oxc_resolver's Resolver::resolve(current_dir, specifier) with extensions
\* VALID_EXTENSIONS and main_files ["index"]: a relative specifier names a
\* file next to the importer (the extension is probed) or a directory with an
\* index file; any other specifier is looked up as a package in node_modules.
ResolverResolve(tree, spec, current_file) ==
  CASE spec.form = "relative" ->
         IF ~InSrcTop(current_file) \/ spec.stem \notin Stems(tree) THEN Err
         ELSE LET e == tree.files[spec.stem]
              IN  CASE e.kind \in {"file", "unreadable"} -> Ok(SrcFile(spec.stem))
                    [] e.kind = "dir" /\ e.index.kind # "absent" -> Ok(SrcIndex(spec.stem))
                    [] OTHER -> Err
    [] spec.form = "bare" ->
         IF Exists(tree, PkgMain(spec.stem)) THEN Ok(PkgMain(spec.stem)) ELSE Err
    [] OTHER -> Err

\* The "~/" branch: walk up to the directory holding package.json, then
\* <root>/src/<rest> as it is if it exists, else with each extension.
AliasLookup(tree, spec, current_file) ==
  IF current_file.loc # "src" THEN Err
  ELSE CASE Exists(tree, SrcDir(spec.stem)) -> Ok(SrcDir(spec.stem))
         [] Exists(tree, SrcFile(spec.stem)) -> Ok(SrcFile(spec.stem))
         [] OTHER -> Err

ResolveImportPath(tree, import_source, current_file) ==
  IF import_source.form = "alias" /\ AliasLookup(tree, import_source, current_file).tag = "Ok"
  THEN AliasLookup(tree, import_source, current_file)
  ELSE ResolverResolve(tree, import_source, current_file)

\* is_external_import
IsExternalImport(tree, import_source, current_file) ==
  LET r == ResolveImportPath(tree, import_source, current_file)
  IN  IF r.tag = "Ok" THEN r.val.loc = "node_modules" ELSE TRUE

(***************************************************************************)
(* Source files.  The parser and the semantic builder are collaborators:   *)
(* a source is given by its items, from which its text and its nodes (in   *)
(* traversal order, with their spans in that text) are laid out together.  *)
(*                                                                         *)
(*   ImportItem      import { L } from 'spec';                             *)
(*   ReExportItem    export { X } from 'spec';     export { X };           *)
(*   ObjectItem      export const I = { K: V };                            *)
(*   ComponentItem   export const I = component$((params) => { body });    *)
(*                   params: nothing, one parameter, or ...rest            *)
(*   CallStmt        callee(args);                                         *)
(*   JsxStmt         <N.T></N.T>;    <N.T/>;                               *)
(***************************************************************************)
NoSource == [form |-> "none", stem |-> ""]

ImportItem(local, spec) == [item |-> "import", local |-> local, source |-> spec]

ReExportItem(name, spec) == [item |-> "reexport", name |-> name, source |-> spec]

ObjectItem(id, key, value) == [item |-> "object", id |-> id, key |-> key, value |-> value]

ComponentItem(id, params, body) ==
  [item |-> "component", id |-> id, params |-> params, body |-> body]

CallStmt(callee, args) == [stmt |-> "call", callee |-> callee, args |-> args]

JsxStmt(segs, selfClosing) == [stmt |-> "jsx", segs |-> segs, selfClosing |-> selfClosing]

\* isComponentPresent(isComponentPresent(inner).property);
NestedMarkerStmt(inner, property) == [stmt |-> "nested", inner |-> inner, property |-> property]

\* Argument shapes of a call.
IdentArg(name) == [kind |-> "Identifier", text |-> Str(name)]

MemberArg(object, property) ==
  [kind |-> "StaticMemberExpression", text |-> Dotted(Str(object), Str(property))]

\* An identifier that starts with a dollar sign.
DollarIdentArg(name) == [kind |-> "Identifier", text |-> Spell(<<"$", name>>)]

\* props.__qwik_analyzer_has_<name>, the second argument of a rewritten call.
PropsReadArg(name) ==
  [kind |-> "StaticMemberExpression",
   text |-> Spell(<<"props", ".", "__qwik_analyzer_has_", name>>)]

NumericArg(text) == [kind |-> "NumericLiteral", text |-> text]

\* object['key'], the key a string literal given by its bytes.
ComputedMemberArg(object, key) ==
  [kind |-> "ComputedMemberExpression",
   text |-> Spell(<<object, "[", "'">>) \o key \o Spell(<<"'", "]">>)]

\* Identifiers that start with a lowercase letter; the parser makes a JSX
\* element whose name is one of them a JSXIdentifier and any other single
\* name a reference to a binding.
LowerIdents == {"div", "t"}

RECURSIVE JoinDots(_)
JoinDots(segs) ==
  IF Len(segs) = 1 THEN Str(segs[1]) ELSE Dotted(Str(Head(segs)), JoinDots(Tail(segs)))

SpecText(spec) ==
  CASE spec.form = "relative" -> Spell(<<"./", spec.stem>>)
    [] spec.form = "alias" -> Spell(<<"~/", spec.stem>>)
    [] OTHER -> Spell(<<spec.stem>>)

RECURSIVE ArgsText(_)
ArgsText(args) ==
  IF args = <<>> THEN <<>>
  ELSE IF Len(args) = 1 THEN args[1].text
       ELSE args[1].text \o Spell(<<",", " ">>) \o ArgsText(Tail(args))

RECURSIVE ArgNodes(_, _)
ArgNodes(args, base) ==
  IF args = <<>> THEN <<>>
  ELSE <<[kind |-> args[1].kind, text |-> args[1].text,
          start |-> base, end |-> base + Len(args[1].text)]>>
       \o ArgNodes(Tail(args), base + Len(args[1].text) + 2)

CalleeOf(callee) ==
  IF Len(callee) = 1 THEN [kind |-> "Identifier", name |-> callee[1]]
  ELSE [kind |-> "StaticMemberExpression", name |-> callee[Len(callee)]]

StmtText(b) ==
  IF b.stmt = "call"
  THEN Spell(b.callee) \o Spell(<<"(">>) \o ArgsText(b.args) \o Spell(<<")", ";">>)
  ELSE IF b.stmt = "nested"
  THEN Spell(<<"isComponentPresent", "(", "isComponentPresent", "(", b.inner, ")", ".",
               b.property, ")", ";">>)
  ELSE Spell(<<"<">>) \o JoinDots(b.segs)
       \o (IF b.selfClosing THEN Spell(<<"/", ">">>)
           ELSE Spell(<<">", "</">>) \o JoinDots(b.segs) \o Spell(<<">">>))
       \o Spell(<<";">>)

StmtNodes(b, base) ==
  IF b.stmt = "call"
  THEN <<[kind |-> "CallExpression", callee |-> CalleeOf(b.callee),
          arguments |-> ArgNodes(b.args, base + Len(Spell(b.callee)) + 1),
          start |-> base,
          end |-> base + Len(Spell(b.callee)) + 1 + Len(ArgsText(b.args)) + 1]>>
  ELSE IF b.stmt = "nested"
  THEN LET inner == base + Len(Spell(<<"isComponentPresent", "(">>))
           innerArg == inner + Len(Spell(<<"isComponentPresent", "(">>))
           innerEnd == innerArg + Len(Str(b.inner)) + 1
           outerArgEnd == innerEnd + 1 + Len(Str(b.property))
       IN  <<[kind |-> "CallExpression", callee |-> CalleeOf(<<"isComponentPresent">>),
              arguments |-> <<[kind |-> "StaticMemberExpression",
                               text |-> Spell(<<"isComponentPresent", "(", b.inner, ")", ".",
                                                b.property>>),
                               start |-> inner, end |-> outerArgEnd]>>,
              start |-> base, end |-> outerArgEnd + 1],
             [kind |-> "CallExpression", callee |-> CalleeOf(<<"isComponentPresent">>),
              arguments |-> ArgNodes(<<IdentArg(b.inner)>>, innerArg),
              start |-> inner, end |-> innerEnd]>>
  ELSE <<[kind |-> "JSXOpeningElement",
          name |-> IF Len(b.segs) > 1 THEN "MemberExpression"
                   ELSE IF b.segs[1] \in LowerIdents THEN "Identifier"
                   ELSE "IdentifierReference",
          segs |-> b.segs,
          start |-> base,
          end |-> base + 1 + Len(JoinDots(b.segs)) + (IF b.selfClosing THEN 2 ELSE 1)]>>

RECURSIVE BodyText(_)
BodyText(body) == IF body = <<>> THEN <<>> ELSE StmtText(Head(body)) \o BodyText(Tail(body))

RECURSIVE BodyNodes(_, _)
BodyNodes(body, base) ==
  IF body = <<>> THEN <<>>
  ELSE StmtNodes(Head(body), base) \o BodyNodes(Tail(body), base + Len(StmtText(Head(body))))

ItemText(it) ==
  CASE it.item = "import" ->
         Spell(<<"import", "{", it.local, "}", "from", "'">>) \o SpecText(it.source)
         \o Spell(<<"'", ";">>)
    [] it.item = "reexport" ->
         Spell(<<"export", "{", it.name, "}">>)
         \o (IF it.source = NoSource THEN <<>>
             ELSE Spell(<<"from", "'">>) \o SpecText(it.source) \o Spell(<<"'">>))
         \o Spell(<<";">>)
    [] it.item = "object" ->
         Spell(<<"export", "const", it.id, "=", "{", it.key, ":">>) \o it.value.text
         \o Spell(<<"}", ";">>)
    [] OTHER ->
         Spell(<<"export", "const", it.id, "=", "component$", "(", "(">>) \o Spell(it.params)
         \o Spell(<<")", "=>", "{">>) \o BodyText(it.body) \o Spell(<<"}", ")", ";">>)

ExportNode(specifiers, source) ==
  [kind |-> "ExportNamedDeclaration", specifiers |-> specifiers, source |-> source]

ItemNodes(it, base) ==
  CASE it.item = "import" ->
         <<[kind |-> "ImportDeclaration", specifiers |-> <<it.local>>, source |-> it.source]>>
    [] it.item = "reexport" -> <<ExportNode(<<it.name>>, it.source)>>
    [] it.item = "object" ->
         <<ExportNode(<<>>, NoSource),
           [kind |-> "VariableDeclarator", id |-> it.id,
            init |-> [kind |-> "ObjectExpression",
                      properties |-> <<[key |-> it.key, value |-> it.value]>>]]>>
    [] OTHER ->
         LET call == base + Len(Spell(<<"export", "const", it.id, "=">>))
             arrow == call + Len(Spell(<<"component$", "(">>))
             bodyBase == arrow + 1 + Len(Spell(it.params)) + Len(Spell(<<")", "=>", "{">>))
             bodyEnd == bodyBase + Len(BodyText(it.body))
         IN  <<ExportNode(<<>>, NoSource),
               [kind |-> "VariableDeclarator", id |-> it.id,
                init |-> [kind |-> "CallExpression"]],
               [kind |-> "CallExpression",
                callee |-> [kind |-> "Identifier", name |-> "component$"],
                arguments |-> <<[kind |-> "ArrowFunctionExpression", text |-> <<>>,
                                 start |-> arrow, end |-> bodyEnd + 1,
                                 params |->
                                   [items |-> IF it.params = <<>> \/ Head(it.params) = "..."
                                              THEN 0 ELSE 1,
                                    rest |-> it.params # <<>> /\ Head(it.params) = "..."],
                                 param_text |-> Spell(it.params)]>>,
                start |-> call, end |-> bodyEnd + 2]>>
             \o BodyNodes(it.body, bodyBase)

RECURSIVE ItemsText(_)
ItemsText(items) ==
  IF items = <<>> THEN <<>> ELSE ItemText(Head(items)) \o ItemsText(Tail(items))

RECURSIVE ItemsNodes(_, _)
ItemsNodes(items, base) ==
  IF items = <<>> THEN <<>>
  ELSE ItemNodes(Head(items), base) \o ItemsNodes(Tail(items), base + Len(ItemText(Head(items))))

\* What the parser and the semantic builder give for a text that parses.
Source(items) == [parses |-> TRUE, text |-> ItemsText(items), nodes |-> ItemsNodes(items, 0)]

\* A text with syntax errors: ParserReturn.errors is not empty.
Unparseable == [parses |-> FALSE, text |-> Spell(<<"export", "const", "=">>), nodes |-> <<>>]

NodesOfKind(src, kind) == SelectSeq(src.nodes, LAMBDA n : n.kind = kind)

(***************************************************************************)
(* Options, and loops that return early.                                   *)
(***************************************************************************)
Some(v) == [tag |-> "Some", val |-> v]

None == [tag |-> "None"]

\* The first element of a sequence of options that is not None.
RECURSIVE FirstSome(_)
FirstSome(opts) ==
  IF opts = <<>> THEN None
  ELSE IF Head(opts).tag = "Some" THEN Head(opts) ELSE FirstSome(Tail(opts))

\* A set as a sequence, in one fixed order.
RECURSIVE CanonSeq(_)
CanonSeq(S) ==
  IF S = {} THEN <<>>
  ELSE LET x == CHOOSE y \in S : TRUE IN <<x>> \o CanonSeq(S \ {x})

EndsWith(s, suffix) ==
  Len(suffix) <= Len(s) /\ SubSeq(s, Len(s) - Len(suffix) + 1, Len(s)) = suffix

(***************************************************************************)
(* import_resolver.rs                                                      *)
(***************************************************************************)
FindImportSourceForComponent(src, component_name) ==
  FirstSome([i \in 1..Len(NodesOfKind(src, "ImportDeclaration")) |->
    LET decl == NodesOfKind(src, "ImportDeclaration")[i]
    IN  IF \E k \in 1..Len(decl.specifiers) : Str(decl.specifiers[k]) = component_name
        THEN Some(decl.source) ELSE None])

\* A faulty extract_function_name: the property name stands for a member
\* callee.
CalleeName(call_expr) == Some(call_expr.callee.name)

\* extract_function_name
ExtractFunctionName(call_expr) ==
  IF call_expr.callee.kind = "Identifier" THEN Some(call_expr.callee.name) ELSE None

\* extract_component_name_from_argument
ExtractComponentNameFromArgument(argument) ==
  IF argument.kind = "Identifier" THEN Some(argument.text) ELSE None

\* The name a marker call is recorded under, None when the call is passed over.
MarkerCallName(call_expr, arg_text) ==
  IF ExtractFunctionName(call_expr) # Some("isComponentPresent") THEN None
  ELSE IF call_expr.arguments = <<>> THEN None
  ELSE IF ExtractComponentNameFromArgument(call_expr.arguments[1]).tag = "Some"
       THEN ExtractComponentNameFromArgument(call_expr.arguments[1])
  ELSE IF ContainsDot(arg_text) THEN Some(arg_text)
  ELSE None

ComponentPresenceCall(name, present, file) ==
  [component_name |-> name, is_present_in_subtree |-> present, source_file |-> file]

PresenceCallsOf(src, file_path) ==
  LET calls == NodesOfKind(src, "CallExpression")
      named == SelectSeq(calls, LAMBDA c :
                 MarkerCallName(c, IF c.arguments = <<>> THEN <<>>
                                   ELSE SubSeq(src.text, c.arguments[1].start + 1,
                                               c.arguments[1].end)).tag = "Some")
  IN  [i \in 1..Len(named) |->
        ComponentPresenceCall(
          MarkerCallName(named[i], SubSeq(src.text, named[i].arguments[1].start + 1,
                                          named[i].arguments[1].end)).val,
          FALSE, file_path)]

\* unwrap_or(default) on a result holding a list, and on an option.
OrEmpty(r) == IF r.tag = "Ok" THEN r.val ELSE <<>>

UnwrapOr(opt, default) == IF opt.tag = "Some" THEN opt.val ELSE default

\* find_calls_in_file from the result `read` of reading the file on.
CallsInSource(read, file_path) ==
  IF read.tag = "Err" THEN Err
  ELSE IF ~read.val.parses THEN Ok(<<>>)
  ELSE Ok(PresenceCallsOf(read.val, file_path))

FindCallsInFile(tree, file_path) == CallsInSource(ReadToString(tree, file_path), file_path)

\* jsx_analysis::extract_jsx_element_name: the full dotted name.
ExtractJsxElementName(jsx_opening) == JoinDots(jsx_opening.segs)

\* file_has_component from the result of reading the file on.
SourceHasComponent(read, target_component) ==
  IF read.tag = "Err" THEN Err
  ELSE IF ~read.val.parses THEN Ok(FALSE)
  ELSE Ok(\E i \in 1..Len(read.val.nodes) :
            /\ read.val.nodes[i].kind = "JSXOpeningElement"
            /\ \/ ExtractJsxElementName(read.val.nodes[i]) = target_component
               \/ EndsWith(ExtractJsxElementName(read.val.nodes[i]),
                           <<".">> \o target_component))

FileHasComponent(tree, file_path, target_component) ==
  SourceHasComponent(ReadToString(tree, file_path), target_component)

\* A faulty index lookup: an export of the name without a source ends the
\* search with an error, and only re-exports are looked at.
IndexNodeAnswerStrict(tree, src, node, index_file_path, component_name) ==
  IF /\ node.kind = "ExportNamedDeclaration"
     /\ \E k \in 1..Len(node.specifiers) : Str(node.specifiers[k]) = component_name
  THEN IF node.source # NoSource
       THEN Some(ResolveImportPath(tree, node.source, index_file_path))
       ELSE Some(Err)
  ELSE None

\* What one node of the index file answers: Some(result) when the loop
\* returns at this node, None when it goes on to the next node.
IndexNodeAnswer(tree, src, node, index_file_path, component_name) ==
  CASE node.kind = "ExportNamedDeclaration" ->
         IF /\ \E k \in 1..Len(node.specifiers) : Str(node.specifiers[k]) = component_name
            /\ node.source # NoSource
         THEN Some(ResolveImportPath(tree, node.source, index_file_path))
         ELSE None
    [] node.kind = "VariableDeclarator" /\ node.init.kind = "ObjectExpression" ->
         FirstSome([k \in 1..Len(node.init.properties) |->
           LET prop == node.init.properties[k]
           IN  IF /\ Str(prop.key) = component_name
                  /\ prop.value.kind = "Identifier"
                  /\ FindImportSourceForComponent(src, prop.value.text).tag = "Some"
               THEN Some(ResolveImportPath(tree,
                           FindImportSourceForComponent(src, prop.value.text).val,
                           index_file_path))
               ELSE None])
    [] OTHER -> None

\* The end of resolve_component_from_index: the answer of the first node
\* that has one, an error when no node has.
FoundOrErr(answer) == IF answer.tag = "Some" THEN answer.val ELSE Err

\* resolve_component_from_index from the result of reading the index on.
ResolveComponentInIndexSource(tree, read, index_file_path, component_name) ==
  IF read.tag = "Err" THEN Err
  ELSE IF ~read.val.parses THEN Err
  ELSE FoundOrErr(FirstSome([i \in 1..Len(read.val.nodes) |->
                    IndexNodeAnswer(tree, read.val, read.val.nodes[i],
                                    index_file_path, component_name)]))

ResolveComponentFromIndex(tree, index_file_path, component_name) ==
  ResolveComponentInIndexSource(tree, ReadToString(tree, index_file_path),
                                index_file_path, component_name)

(***************************************************************************)
(* jsx_analysis.rs                                                         *)
(***************************************************************************)
\* str::to_lowercase on the identifiers of the model.
ToLowercase(ident) ==
  CASE ident = "Child" -> "child"
    [] ident = "Root" -> "root"
    [] ident = "NS" -> "ns"
    [] ident = "Foo" -> "foo"
    [] ident = "Bar" -> "bar"
    [] ident = "Link" -> "link"
    [] ident = "Button" -> "button"
    [] ident = "Input" -> "input"
    [] ident = "Label" -> "label"
    [] ident = "Object" -> "object"
    [] OTHER -> ident

\* HTML_TAGS, the members that the identifiers of the model can reach.
HtmlTags == {"div", "link", "a", "b", "button", "input", "label", "object"}

\* A faulty is_html_element: the name is looked up as it is written.
IsHtmlElementExact(ident) == ident \in HtmlTags

\* is_html_element
IsHtmlElement(ident) == ToLowercase(ident) \in HtmlTags

\* oxc's is_reserved_keyword_or_global_object, on the identifiers of the
\* model: the reserved word among them.
ReservedOrGlobal == {"this"}

\* is_component_name: every identifier of the model is a valid identifier
\* name; the first character is an ASCII uppercase letter unless the
\* identifier is one of LowerIdents.
IsComponentName(ident) ==
  /\ ident \notin LowerIdents
  /\ ident \notin ReservedOrGlobal
  /\ ~IsHtmlElement(ident)

\* parse_member_component
ParseMemberComponent(element_name) ==
  IF Len(SplitDot(element_name)) = 2
  THEN Some(Dotted(SplitDot(element_name)[1], SplitDot(element_name)[2]))
  ELSE None

\* The HashSet that extract_imported_jsx_components fills.
ImportedJsxComponentSet(src) ==
  {ExtractJsxElementName(n) : n \in
     {src.nodes[i] : i \in {j \in 1..Len(src.nodes) :
        /\ src.nodes[j].kind = "JSXOpeningElement"
        /\ IF ContainsDot(ExtractJsxElementName(src.nodes[j]))
           THEN ParseMemberComponent(ExtractJsxElementName(src.nodes[j])).tag = "Some"
           ELSE IsComponentName(src.nodes[j].segs[1])}}}

\* components.into_iter().collect(): the set in the iteration order of the
\* hash set, which the permutation `order` stands for.
ExtractImportedJsxComponents(src, order) ==
  LET canon == CanonSeq(ImportedJsxComponentSet(src))
  IN  [i \in 1..Len(canon) |-> canon[order[i]]]

IterationOrders(src) == Perms(Cardinality(ImportedJsxComponentSet(src)))

(***************************************************************************)
(* utils.rs                                                                *)
(***************************************************************************)
\* The names bound in the root scope: imports and top-level declarations.
RootBindings(src) ==
  UNION {{src.nodes[i].specifiers[k] : k \in 1..Len(src.nodes[i].specifiers)} :
           i \in {j \in 1..Len(src.nodes) : src.nodes[j].kind = "ImportDeclaration"}}
  \cup {src.nodes[i].id : i \in {j \in 1..Len(src.nodes) : src.nodes[j].kind = "VariableDeclarator"}}

\* find_component_symbol_id: get_root_binding(component_name).
FindComponentSymbolId(src, component_name) ==
  IF \E binding \in RootBindings(src) : Str(binding) = component_name
  THEN Some(CHOOSE binding \in RootBindings(src) : Str(binding) = component_name)
  ELSE None

\* get_jsx_element_symbol_id: only JSXIdentifier and member expressions are
\* looked at; a member expression answers for its leftmost object.
GetJsxElementSymbolId(src, jsx_opening) ==
  IF jsx_opening.name \in {"Identifier", "MemberExpression"}
     /\ jsx_opening.segs[1] \in RootBindings(src)
  THEN Some(jsx_opening.segs[1]) ELSE None

\* utils::extract_jsx_element_name: no arm for a reference identifier, and a
\* member expression gives "<leftmost object>.<property>".
UtilsExtractJsxElementName(jsx_opening) ==
  CASE jsx_opening.name = "Identifier" -> Some(Str(jsx_opening.segs[1]))
    [] jsx_opening.name = "MemberExpression" ->
         Some(Dotted(Str(jsx_opening.segs[1]), Str(jsx_opening.segs[Len(jsx_opening.segs)])))
    [] OTHER -> None

\* can_resolve_namespace_locally
CanResolveNamespaceLocally(tree, src, namespace, current_file) ==
  LET import_source == FindImportSourceForComponent(src, namespace)
  IN  IF import_source.tag = "Some"
      THEN ResolveImportPath(tree, import_source.val, current_file).tag = "Ok"
      ELSE FALSE

\* One JSX opening element of the loop of component_exists_in_jsx_with_path.
JsxElementMatches(tree, src, jsx_opening, component_name, current_file) ==
  \/ /\ GetJsxElementSymbolId(src, jsx_opening).tag = "Some"
     /\ FindComponentSymbolId(src, component_name).tag = "Some"
     /\ GetJsxElementSymbolId(src, jsx_opening) = FindComponentSymbolId(src, component_name)
  \/ /\ UtilsExtractJsxElementName(jsx_opening).tag = "Some"
     /\ LET element_name == UtilsExtractJsxElementName(jsx_opening).val
        IN  \/ element_name = component_name
            \/ /\ ~ContainsDot(component_name)
               /\ ContainsDot(element_name)
               /\ Len(SplitDot(element_name)) = 2
               /\ SplitDot(element_name)[2] = component_name
               /\ CanResolveNamespaceLocally(tree, src, SplitDot(element_name)[1], current_file)

ComponentExistsInJsxWithPath(tree, src, component_name, current_file) ==
  \E i \in 1..Len(src.nodes) :
    /\ src.nodes[i].kind = "JSXOpeningElement"
    /\ JsxElementMatches(tree, src, src.nodes[i], component_name, current_file)

(***************************************************************************)
(* component_presence.rs                                                   *)
(***************************************************************************)
\* The index file of a resolved module path: the path itself when it is a
\* file, else index.ts (or index.tsx) inside it, else None.
IndexFileIn(tree, module_path) ==
  IF IsFile(tree, module_path) THEN Some(module_path)
  ELSE IF Exists(tree, SrcIndex(module_path.stem)) /\ module_path.loc = "src"
       THEN Some(SrcIndex(module_path.stem))
  ELSE None

\* The files with a source extension directly inside src/, in one fixed
\* order.
SrcEntries(tree) ==
  SelectSeq([i \in 1..Len(CanonSeq(Stems(tree))) |-> SrcFile(CanonSeq(Stems(tree))[i])],
            LAMBDA f : IsFile(tree, f))

\* The orders in which read_dir may list src/: the operating system decides,
\* so every order of the entries is possible.
ListingOrders(tree) == Perms(Len(SrcEntries(tree)))

\* The files with a source extension directly inside a directory, in the
\* order read_dir lists them, which the permutation `listing` stands for.
FilesIn(tree, dir_of, listing) ==
  CASE dir_of.loc = "src" /\ dir_of.leaf = "file" ->
         [i \in 1..Len(SrcEntries(tree)) |-> SrcEntries(tree)[listing[i]]]
    [] dir_of.loc = "src" ->
         IF Exists(tree, SrcIndex(dir_of.stem)) THEN <<SrcIndex(dir_of.stem)>> ELSE <<>>
    [] OTHER -> IF Exists(tree, PkgMain(dir_of.stem)) THEN <<PkgMain(dir_of.stem)>> ELSE <<>>

\* The loop of find_calls_in_module over the files of the directory: the
\* calls of every file that find_calls_in_file can read.
CallsInFiles(tree, files) ==
  Ok(Flatten([i \in 1..Len(files) |-> OrEmpty(FindCallsInFile(tree, files[i]))]))

\* find_calls_in_module: the directory is the path itself, or its parent
\* when the path ends in a source extension.
FindCallsInModule(tree, module_path, listing) ==
  CallsInFiles(tree, FilesIn(tree, module_path, listing))

\* find_presence_calls for a member name, from the resolved component file on.
CallsOfComponentFile(tree, component_file, module_dir, listing) ==
  IF component_file.tag = "Ok"
  THEN FindCallsInFile(tree, component_file.val)
  ELSE FindCallsInModule(tree, module_dir, listing)

\* find_presence_calls for a member name, from the resolved module on.
CallsInModuleDir(tree, module_dir, component_name, listing) ==
  IF module_dir.tag = "Err" THEN Ok(<<>>)
  ELSE CallsOfComponentFile(tree,
         ResolveComponentFromIndex(tree,
           UnwrapOr(IndexFileIn(tree, module_dir.val), module_dir.val), component_name),
         module_dir.val, listing)

\* find_presence_calls for a member name, from the import source on.
MemberPresenceCalls(tree, import_source, component_name, current_file, listing) ==
  IF import_source.tag = "None" THEN Ok(<<>>)
  ELSE CallsInModuleDir(tree, ResolveImportPath(tree, import_source.val, current_file),
                        component_name, listing)

\* find_presence_calls for a simple name, from the resolved path on.
CallsInResolvedFile(tree, resolved_path) ==
  IF resolved_path.tag = "Err" THEN Ok(<<>>) ELSE FindCallsInFile(tree, resolved_path.val)

\* find_presence_calls for a simple name, from the import source on.
SimplePresenceCalls(tree, import_source, current_file) ==
  IF import_source.tag = "None" THEN Ok(<<>>)
  ELSE CallsInResolvedFile(tree, ResolveImportPath(tree, import_source.val, current_file))

FindPresenceCalls(tree, src, jsx_component, current_file, listing) ==
  IF ContainsDot(jsx_component)
  THEN IF Len(SplitDot(jsx_component)) # 2 THEN Ok(<<>>)
       ELSE MemberPresenceCalls(tree,
              FindImportSourceForComponent(src, SplitDot(jsx_component)[1]),
              SplitDot(jsx_component)[2], current_file, listing)
  ELSE SimplePresenceCalls(tree, FindImportSourceForComponent(src, jsx_component),
                           current_file)

\* The component file a module's index gives for a component: from the
\* index file, the resolved module and the import source on.
ComponentInIndexOf(tree, index_file, component_name) ==
  IF index_file.tag = "None" THEN Err
  ELSE ResolveComponentFromIndex(tree, index_file.val, component_name)

ComponentInModule(tree, module_path, component_name) ==
  IF module_path.tag = "Err" THEN Err
  ELSE ComponentInIndexOf(tree, IndexFileIn(tree, module_path.val), component_name)

ComponentThroughImport(tree, import_source, component_name, current_file) ==
  IF import_source.tag = "None" THEN Err
  ELSE ComponentInModule(tree, ResolveImportPath(tree, import_source.val, current_file),
                         component_name)

\* resolve_component_from_jsx_to_file from the result of reading the
\* current file on.
ComponentThroughSource(tree, read, jsx_component, current_file) ==
  IF read.tag = "Err" THEN Err
  ELSE IF ~read.val.parses THEN Err
  ELSE ComponentThroughImport(tree,
         FindImportSourceForComponent(read.val, SplitDot(jsx_component)[1]),
         SplitDot(jsx_component)[2], current_file)

\* resolve_component_from_jsx_to_file: it parses the current file as it is
\* on disk.
ResolveComponentFromJsxToFile(tree, jsx_component, current_file) ==
  IF ~ContainsDot(jsx_component) \/ Len(SplitDot(jsx_component)) # 2 THEN Err
  ELSE ComponentThroughSource(tree, ReadToString(tree, current_file), jsx_component,
                              current_file)

\* A faulty component_file_defines_component: any file that parses is taken
\* to define the component.
AnyParsedSourceDefines(read, component_name) ==
  IF read.tag = "Err" THEN Err ELSE Ok(read.val.parses)

\* component_file_defines_component from the result of reading the file on.
SourceDefinesComponent(read, component_name) ==
  IF read.tag = "Err" THEN Err
  ELSE IF ~read.val.parses THEN Ok(FALSE)
  ELSE Ok(\E i \in 1..Len(read.val.nodes) :
            \/ /\ read.val.nodes[i].kind = "ExportNamedDeclaration"
               /\ \E k \in 1..Len(read.val.nodes[i].specifiers) :
                    Str(read.val.nodes[i].specifiers[k]) = component_name
            \/ /\ read.val.nodes[i].kind = "VariableDeclarator"
               /\ Str(read.val.nodes[i].id) = component_name)

ComponentFileDefinesComponent(tree, component_file, component_name) ==
  SourceDefinesComponent(ReadToString(tree, component_file), component_name)

\* `if let Ok(component_file) = .. { component_file_defines_component(..)? }`
DefinesIfResolved(tree, component_file, component_name) ==
  IF component_file.tag = "Ok"
  THEN ComponentFileDefinesComponent(tree, component_file.val, component_name)
  ELSE Ok(FALSE)

\* resolve_member_expression_to_component from the import source on.
MemberDefinesTarget(tree, import_source, component_name, target_component, current_file) ==
  IF import_source.tag = "None" THEN Ok(FALSE)
  ELSE IF IsExternalImport(tree, import_source.val, current_file) THEN Ok(FALSE)
  ELSE DefinesIfResolved(tree,
         ComponentInModule(tree, ResolveImportPath(tree, import_source.val, current_file),
                           component_name),
         target_component)

\* resolve_member_expression_to_component
ResolveMemberExpressionToComponent(tree, jsx_element_name, target_component, src, current_file) ==
  IF Len(SplitDot(jsx_element_name)) # 2 THEN Ok(FALSE)
  ELSE MemberDefinesTarget(tree,
         FindImportSourceForComponent(src, SplitDot(jsx_element_name)[1]),
         SplitDot(jsx_element_name)[2], target_component, current_file)

\* resolve_simple_name_to_member_expression: not implemented, always false.
ResolveSimpleNameToMemberExpression(jsx_element_name, target_component) == Ok(FALSE)

JsxElementResolvesToTarget(tree, jsx_element_name, target_component, src, current_file) ==
  IF jsx_element_name = target_component THEN Ok(TRUE)
  ELSE IF ContainsDot(jsx_element_name) /\ ~ContainsDot(target_component)
       THEN ResolveMemberExpressionToComponent(tree, jsx_element_name, target_component,
                                               src, current_file)
  ELSE IF ~ContainsDot(jsx_element_name) /\ ContainsDot(target_component)
       THEN ResolveSimpleNameToMemberExpression(jsx_element_name, target_component)
  ELSE Ok(FALSE)

\* A loop over results that returns at the first element that is an error
\* or Ok(true), and Ok(false) when there is none.
RECURSIVE FirstDecisive(_)
FirstDecisive(results) ==
  IF results = <<>> THEN Ok(FALSE)
  ELSE IF Head(results) = Ok(FALSE) THEN FirstDecisive(Tail(results))
  ELSE Head(results)

\* analyze_jsx_content_in_component_file from the result of reading the
\* file on; extract_jsx_element_name_enhanced gives the full dotted name.
JsxContentOfSource(tree, read, component_file, target_component) ==
  IF read.tag = "Err" THEN Err
  ELSE IF ~read.val.parses THEN Ok(FALSE)
  ELSE FirstDecisive([i \in 1..Len(NodesOfKind(read.val, "JSXOpeningElement")) |->
         JsxElementResolvesToTarget(tree,
           ExtractJsxElementName(NodesOfKind(read.val, "JSXOpeningElement")[i]),
           target_component, read.val, component_file)])

AnalyzeJsxContentInComponentFile(tree, component_file, target_component) ==
  JsxContentOfSource(tree, ReadToString(tree, component_file), component_file,
                     target_component)

Return(v) == [tag |-> "Return", val |-> v]

Continue == [tag |-> "Continue"]

\* `if f(..)? { return Ok(true) }`
ReturnIfFound(r) == IF r # Ok(FALSE) THEN Return(r) ELSE Continue

\* The body of the loop of has_component for one JSX component name: the
\* value it returns, or Continue when the loop goes on.  Its steps, last
\* first: after analyze_jsx_content_in_component_file,
IterationAfterJsx(tree, component_name, resolved_path, presence_calls, in_jsx) ==
  IF in_jsx # Ok(FALSE) THEN Return(in_jsx)
  ELSE IF presence_calls = <<>> /\ ~ContainsDot(component_name)
       THEN ReturnIfFound(FileHasComponent(tree, resolved_path, component_name))
  ELSE Continue

\* after find_calls_in_file,
IterationInFile(tree, component_name, resolved_path, presence_calls) ==
  IF \E i \in 1..Len(presence_calls) : presence_calls[i].component_name = component_name
  THEN Return(Ok(TRUE))
  ELSE IterationAfterJsx(tree, component_name, resolved_path, presence_calls,
         AnalyzeJsxContentInComponentFile(tree, resolved_path, component_name))

\* after resolve_import_path,
IterationInResolved(tree, component_name, resolved_path) ==
  IF resolved_path.tag = "Err" THEN Continue
  ELSE IterationInFile(tree, component_name, resolved_path.val,
                       OrEmpty(FindCallsInFile(tree, resolved_path.val)))

\* after find_import_source_for_component,
IterationThroughImport(tree, component_name, current_file, import_source) ==
  IF import_source.tag = "None" THEN Continue
  ELSE IF IsExternalImport(tree, import_source.val, current_file) THEN Continue
  ELSE IterationInResolved(tree, component_name,
                           ResolveImportPath(tree, import_source.val, current_file))

\* the exact match of two member names,
ExactMemberMatch(tree, current_file, module_source) ==
  IF module_source.tag = "Some" /\ IsExternalImport(tree, module_source.val, current_file)
  THEN Continue
  ELSE Return(Ok(TRUE))

\* after the namespace step,
IterationAfterNamespace(tree, src, component_name, current_file, jsx_component, defines) ==
  IF defines # Ok(FALSE) THEN Return(defines)
  ELSE IF ContainsDot(jsx_component) /\ ContainsDot(component_name)
       THEN IF jsx_component = component_name
            THEN ExactMemberMatch(tree, current_file,
                   FindImportSourceForComponent(src, SplitDot(jsx_component)[1]))
            ELSE Continue
  ELSE IterationThroughImport(tree, component_name, current_file,
                              FindImportSourceForComponent(src, jsx_component))

\* and the whole body.
HasComponentIteration(tree, src, component_name, current_file, jsx_component) ==
  IterationAfterNamespace(tree, src, component_name, current_file, jsx_component,
    IF ContainsDot(jsx_component) /\ ~ContainsDot(component_name)
    THEN DefinesIfResolved(tree,
           ResolveComponentFromJsxToFile(tree, jsx_component, current_file),
           component_name)
    ELSE Ok(FALSE))

RECURSIVE HasComponentLoop(_, _, _, _, _)
\* One turn of the loop, given what its body gave.
HasComponentTurn(tree, src, component_name, current_file, rest, step) ==
  IF step.tag = "Return" THEN step.val
  ELSE HasComponentLoop(tree, src, component_name, current_file, rest)

HasComponentLoop(tree, src, component_name, current_file, jsx_components) ==
  IF jsx_components = <<>> THEN Ok(FALSE)
  ELSE HasComponentTurn(tree, src, component_name, current_file, Tail(jsx_components),
         HasComponentIteration(tree, src, component_name, current_file,
                               Head(jsx_components)))

\* has_component(semantic, component_name, current_file); `order` is the
\* iteration order of the set of JSX component names.
HasComponent(tree, src, component_name, current_file, order) ==
  IF ComponentExistsInJsxWithPath(tree, src, component_name, current_file) THEN Ok(TRUE)
  ELSE HasComponentLoop(tree, src, component_name, current_file,
                        ExtractImportedJsxComponents(src, order))

(***************************************************************************)
(* transformations.rs                                                      *)
(***************************************************************************)
PropName(component_name) == Spell(<<"__qwik_analyzer_has_">>) \o ReplaceDots(component_name)

BoolText(b) == IF b THEN Spell(<<"true">>) ELSE Spell(<<"false">>)

\* Whether the resolved file is the call's source file (the canonical paths
\* when both exist, the strings otherwise; the tree has no links).
SamePath(a, b) == a = b

\* jsx_element_resolves_to_source_file from a resolved file on.
ResolvesTo(resolved, target_source_file) ==
  IF resolved.tag = "Ok" THEN SamePath(resolved.val, target_source_file) ELSE FALSE

\* jsx_element_resolves_to_source_file for a member name, from the resolved
\* module and from the import source on.
MemberResolvesToSourceFile(tree, module_path, component_name, target_source_file) ==
  IF module_path.tag = "Err" THEN FALSE
  ELSE ResolvesTo(ResolveComponentFromIndex(tree,
                    UnwrapOr(IndexFileIn(tree, module_path.val), module_path.val),
                    component_name),
                  target_source_file)

MemberImportResolvesToSourceFile(tree, import_source, component_name, target_source_file, current_file) ==
  IF import_source.tag = "None" THEN FALSE
  ELSE MemberResolvesToSourceFile(tree,
         ResolveImportPath(tree, import_source.val, current_file),
         component_name, target_source_file)

\* jsx_element_resolves_to_source_file for a simple name, from the import
\* source on.
SimpleImportResolvesToSourceFile(tree, import_source, target_source_file, current_file) ==
  IF import_source.tag = "None" THEN FALSE
  ELSE ResolvesTo(ResolveImportPath(tree, import_source.val, current_file),
                  target_source_file)

JsxElementResolvesToSourceFile(tree, src, element_name, target_source_file, current_file) ==
  IF ContainsDot(element_name)
  THEN IF Len(SplitDot(element_name)) # 2 THEN FALSE
       ELSE MemberImportResolvesToSourceFile(tree,
              FindImportSourceForComponent(src, SplitDot(element_name)[1]),
              SplitDot(element_name)[2], target_source_file, current_file)
  ELSE SimpleImportResolvesToSourceFile(tree,
         FindImportSourceForComponent(src, element_name),
         target_source_file, current_file)

\* The patch pushed for each opening element that resolves to the call's
\* source file: an insertion just before the last byte of the element.
InjectionsAt(elements, call) ==
  [i \in 1..Len(elements) |->
    Transformation(elements[i].end - 1, elements[i].end - 1,
                   <<" ">> \o PropName(call.component_name) \o <<"=", "{">>
                   \o BoolText(call.is_present_in_subtree) \o <<"}">>)]

GenerateJsxPropTransformations(tree, src, call, current_file) ==
  InjectionsAt(SelectSeq(NodesOfKind(src, "JSXOpeningElement"), LAMBDA n :
                 JsxElementResolvesToSourceFile(tree, src, ExtractJsxElementName(n),
                                                call.source_file, current_file)),
               call)

TransformFile(tree, src, component_calls, current_file) ==
  Flatten([i \in 1..Len(component_calls) |->
    GenerateJsxPropTransformations(tree, src, component_calls[i], current_file)])

\* has_component_present_calls
HasComponentPresentCalls(src) ==
  \E i \in 1..Len(src.nodes) :
    /\ src.nodes[i].kind = "CallExpression"
    /\ ExtractFunctionName(src.nodes[i]) = Some("isComponentPresent")

\* find_component_info: the first component$ call whose first argument is
\* an arrow function: (start of the arrow function, params.items is not
\* empty). A rest parameter is no item of the list.
FindComponentInfo(src) ==
  FirstSome([i \in 1..Len(NodesOfKind(src, "CallExpression")) |->
    LET call_expr == NodesOfKind(src, "CallExpression")[i]
    IN  IF /\ ExtractFunctionName(call_expr) = Some("component$")
           /\ call_expr.arguments # <<>>
           /\ call_expr.arguments[1].kind = "ArrowFunctionExpression"
        THEN Some([start |-> call_expr.arguments[1].start,
                   has_props |-> call_expr.arguments[1].params.items > 0])
        ELSE None])

\* &text[start..end]: a panic when the range is not inside the text.
CanSlice(text, start, end) == start <= end /\ end <= Len(text)

Slice(text, start, end) == SubSeq(text, start + 1, end)

\* str::find('('): the offset of the first "(" at or after `from`.
FindParen(text, from) ==
  IF \E i \in from + 1..Len(text) : text[i] = "("
  THEN Some((CHOOSE i \in from + 1..Len(text) :
               text[i] = "(" /\ \A j \in from + 1..i - 1 : text[j] # "(") - 1 - from)
  ELSE None

\* create_props_parameter_transformation from the component info on.
PropsParameterAt(info, source_text) ==
  IF info.tag = "None" THEN Ok(<<>>)
  ELSE IF info.val.has_props THEN Ok(<<>>)
  ELSE IF ~CanSlice(source_text, info.val.start, Len(source_text)) THEN [tag |-> "Panic"]
  ELSE IF FindParen(source_text, info.val.start).tag = "None" THEN Ok(<<>>)
  ELSE LET insert_pos == info.val.start + FindParen(source_text, info.val.start).val + 1
       IN  Ok(<<Transformation(insert_pos, insert_pos, Spell(<<"props", ":", " ", "any">>))>>)

\* create_props_parameter_transformation, on the text read from disk: the
\* patches it adds, or a panic.
CreatePropsParameterTransformation(src, source_text) ==
  PropsParameterAt(FindComponentInfo(src), source_text)

\* create_component_present_call_transformations, on the text read from
\* disk: one replacement per marker call with an extractable name.
MarkerCallsWithArgument(src) ==
  SelectSeq(NodesOfKind(src, "CallExpression"), LAMBDA c :
    ExtractFunctionName(c) = Some("isComponentPresent") /\ c.arguments # <<>>)

CreateComponentPresentCallTransformations(src, source_text) ==
  LET calls == MarkerCallsWithArgument(src)
      ArgText(c) == Slice(source_text, c.arguments[1].start, c.arguments[1].end)
      named == SelectSeq(calls, LAMBDA c : MarkerCallName(c, ArgText(c)).tag = "Some")
  IN  IF \E i \in 1..Len(calls) :
           ~CanSlice(source_text, calls[i].arguments[1].start, calls[i].arguments[1].end)
      THEN [tag |-> "Panic"]
      ELSE Ok([i \in 1..Len(named) |->
             Transformation(named[i].start, named[i].end,
               Spell(<<"isComponentPresent", "(">>) \o ArgText(named[i])
               \o Spell(<<",", " ", "props", ".">>)
               \o PropName(MarkerCallName(named[i], ArgText(named[i])).val) \o <<")">>)])

\* The end of transform_components: the two lists, or what stopped one.
ComponentTransformations(props, calls) ==
  IF props.tag # "Ok" THEN props
  ELSE IF calls.tag # "Ok" THEN calls
  ELSE Ok(props.val \o calls.val)

\* transform_components from the result of reading file_path on.
TransformComponentsOf(src, read) ==
  IF read.tag = "Err" THEN Err
  ELSE ComponentTransformations(CreatePropsParameterTransformation(src, read.val.text),
         CreateComponentPresentCallTransformations(src, read.val.text))

\* transform_components(semantic, file_path): the semantic model is that of
\* the supplied text, the text sliced is the one read from file_path.
TransformComponents(tree, src, file_path) ==
  IF ~HasComponentPresentCalls(src) THEN Ok(<<>>)
  ELSE TransformComponentsOf(src, ReadToString(tree, file_path))

(***************************************************************************)
(* Patch applicator: the tail of analyze_and_transform_code.               *)
(***************************************************************************)
\* Vec::sort_by(|a, b| b.start.cmp(&a.start)): a stable sort, descending start.
RECURSIVE InsertByStartDesc(_, _)
InsertByStartDesc(sorted, t) ==
  IF sorted = <<>> THEN <<t>>
  ELSE IF Head(sorted).start >= t.start
       THEN <<Head(sorted)>> \o InsertByStartDesc(Tail(sorted), t)
       ELSE <<t>> \o sorted

RECURSIVE SortByStartDesc(_)
SortByStartDesc(ts) ==
  IF ts = <<>> THEN <<>>
  ELSE InsertByStartDesc(SortByStartDesc(SubSeq(ts, 1, Len(ts) - 1)), ts[Len(ts)])

\* One iteration of the loop: the guard, then the splice; a patch that
\* fails the guard is passed over.
ApplyOne(code, t) ==
  IF t.start <= Len(code) /\ t.end <= Len(code) /\ t.start <= t.end
  THEN SubSeq(code, 1, t.start) \o t.replacement \o SubSeq(code, t.end + 1, Len(code))
  ELSE code

RECURSIVE ApplyAll(_, _)
ApplyAll(code, ts) ==
  IF ts = <<>> THEN code ELSE ApplyAll(ApplyOne(code, Head(ts)), Tail(ts))

\* The applicator always answers Ok(text).
ApplyTransformations(code, ts) ==
  IF ts = <<>> THEN [tag |-> "Ok", text |-> code]
  ELSE [tag |-> "Ok", text |-> ApplyAll(code, SortByStartDesc(ts))]

(***************************************************************************)
(* mod.rs: analyze_code_with_semantics                                     *)
(***************************************************************************)
\* The marker calls found through the JSX components of the analysed text.
CallsOfComponents(tree, src, file_path, jsx_components, listing) ==
  Flatten([i \in 1..Len(jsx_components) |->
    OrEmpty(FindPresenceCalls(tree, src, jsx_components[i], file_path, listing))])

AllComponentCalls(tree, src, file_path, order, listing) ==
  CallsOfComponents(tree, src, file_path, ExtractImportedJsxComponents(src, order), listing)

\* The result carries, next to has_description and transformations, the
\* marker calls the analysis recorded.
AnalysisResult(has_description, transformations, calls) ==
  [has_description |-> has_description, transformations |-> transformations,
   calls |-> calls]

\* The steps of analyze_code_with_semantics, last first: the result,
AnalysisOf(has_any_component, current_file_transformations, component_transformations, all_component_calls) ==
  IF component_transformations.tag # "Ok" THEN component_transformations
  ELSE Ok(AnalysisResult(has_any_component,
            current_file_transformations \o component_transformations.val,
            all_component_calls))

\* the patches, given the verdict,
TransformationsFor(tree, src, file_path, all_component_calls, has_any_component) ==
  AnalysisOf(has_any_component,
             IF has_any_component
             THEN TransformFile(tree, src, all_component_calls, file_path)
             ELSE <<>>,
             TransformComponents(tree, src, file_path),
             all_component_calls)

\* the verdict, given the calls with their own verdicts,
VerdictFor(tree, src, file_path, all_component_calls) ==
  TransformationsFor(tree, src, file_path, all_component_calls,
    \E i \in 1..Len(all_component_calls) : all_component_calls[i].is_present_in_subtree)

\* the calls with their verdicts, unless has_component failed for one,
WithVerdicts(tree, src, file_path, found, verdicts) ==
  IF \E i \in 1..Len(found) : verdicts[i].tag = "Err" THEN Err
  ELSE VerdictFor(tree, src, file_path,
         [i \in 1..Len(found) |->
            [found[i] EXCEPT !.is_present_in_subtree = verdicts[i].val]])

\* and has_component for every call found.
CheckCalls(tree, src, file_path, found, orders) ==
  WithVerdicts(tree, src, file_path, found,
    [i \in 1..Len(found) |->
       HasComponent(tree, src, found[i].component_name, file_path, orders[i])])

\* analyze_code_with_semantics, given the marker calls its first loop finds
\* when the text parses.
AnalysisOfCalls(tree, src, file_path, found, orders) ==
  IF ~src.parses THEN Ok(AnalysisResult(FALSE, <<>>, <<>>))
  ELSE CheckCalls(tree, src, file_path, found, orders)

\* `order` is the iteration order of the JSX component set built by the
\* call itself, orders[i] that of the set built by the i-th has_component,
\* `listing` the order in which read_dir lists src/.
AnalyzeCodeWithSemantics(tree, src, file_path, order, orders, listing) ==
  AnalysisOfCalls(tree, src, file_path,
                  AllComponentCalls(tree, src, file_path, order, listing), orders)

\* The call lists the first loop may build under one iteration order of the
\* set: one for every order of the directory listing.
FoundUnder(tree, src, file_path, order) ==
  {AllComponentCalls(tree, src, file_path, order, listing) : listing \in ListingOrders(tree)}

\* The call lists the first loop may build: those of every iteration order.
FoundCalls(tree, src, file_path) ==
  UNION {FoundUnder(tree, src, file_path, order) : order \in IterationOrders(src)}

\* The tail of analyze_and_transform_code, given the analysis result.
ApplyResult(code, result) ==
  IF result.tag # "Ok" THEN result
  ELSE ApplyTransformations(code, result.val.transformations)

\* lib.rs analyze_and_transform_code: the analysis, then the applicator.
AnalyzeAndTransformCode(tree, src, file_path, order, orders, listing) ==
  ApplyResult(src.text,
              AnalyzeCodeWithSemantics(tree, src, file_path, order, orders, listing))

(***************************************************************************)
(* Inputs of the applicator specification.                                 *)
(***************************************************************************)
Bytes == {"a", "b"}

Replacements == {<<>>, <<"X">>, <<"Y">>}

Texts == SeqsUpTo(Bytes, MaxLen)

PatchesFor(code) ==
  {Transformation(s, e, r) : s \in 0..Len(code) + 1, e \in 0..Len(code) + 1, r \in Replacements}

NoFs == [files |-> <<>>, packages |-> <<>>]

InitApply ==
  /\ fs = NoFs
  /\ \E code \in Texts : \E ts \in SeqsUpTo(PatchesFor(code), MaxPatches) :
       op = [name |-> "input", code |-> code, transformations |-> ts]
  /\ out = [tag |-> "none"]

ApplyPatches ==
  /\ op.name = "input"
  /\ op' = [op EXCEPT !.name = "apply"]
  /\ out' = ApplyTransformations(op.code, op.transformations)
  /\ UNCHANGED fs

NextApply == ApplyPatches

SpecApply == InitApply /\ [][NextApply]_vars

(***************************************************************************)
(* The projects of the analysis specification: src/ holds a.tsx, b (a      *)
(* file or a directory), c.tsx and d.tsx, node_modules/ may hold pkg.      *)
(***************************************************************************)
Marker(name) == CallStmt(<<"isComponentPresent">>, <<IdentArg(name)>>)

\* isComponentPresent(arg); for an argument of any shape
MarkerOf(arg) == CallStmt(<<"isComponentPresent">>, <<arg>>)

\* import { local } from 'spec';  export const Bar = component$(() => { body });
Consumer(local, spec, body) ==
  Source(<<ImportItem(local, spec), ComponentItem("Bar", <<>>, body)>>)

\* export const id = component$(() => { body });
Component(id, body) == Source(<<ComponentItem(id, <<>>, body)>>)

MenuA ==
  {File(Consumer("Foo", Relative("b"), <<JsxStmt(<<"Foo">>, TRUE)>>)),
   File(Consumer("Foo", Alias("b"), <<JsxStmt(<<"Foo">>, TRUE)>>)),
   File(Consumer("NS", Bare("pkg"), <<JsxStmt(<<"NS", "Child">>, TRUE)>>)),
   File(Consumer("NS", Relative("b"), <<JsxStmt(<<"NS", "Child">>, TRUE)>>)),
   File(Consumer("NS", Relative("b"), <<JsxStmt(<<"NS", "Root">>, FALSE)>>)),
   File(Consumer("NS", Relative("b"),
                 <<JsxStmt(<<"NS", "Root">>, FALSE), JsxStmt(<<"NS", "Child">>, TRUE)>>)),
   File(Consumer("NS", Bare("pkg"),
                 <<JsxStmt(<<"NS">>, TRUE), JsxStmt(<<"NS", "Child">>, TRUE)>>)),
   File(Source(<<ImportItem("Foo", Relative("b")), ImportItem("Root", Relative("c")),
                 ComponentItem("Bar", <<>>,
                               <<JsxStmt(<<"Foo">>, TRUE), JsxStmt(<<"Root">>, TRUE)>>)>>)),
   File(Unparseable)}

IndexSource == Source(<<ReExportItem("Root", Relative("c")), ReExportItem("Child", Relative("d"))>>)

MenuB ==
  {Absent, Unreadable, Dir(Absent), Dir(File(Component("Foo", <<Marker("Child")>>))),
   File(Unparseable),
   File(Source(<<ImportItem("Bar", Relative("a")),
                 ComponentItem("Foo", <<>>, <<JsxStmt(<<"Bar">>, TRUE)>>)>>)),
   File(Source(<<ImportItem("Bar", Relative("a")),
                 ComponentItem("Foo", <<>>, <<Marker("Child"), JsxStmt(<<"Bar">>, TRUE)>>)>>)),
   File(Source(<<ImportItem("Bar", Relative("c")),
                 ComponentItem("Foo", <<>>, <<JsxStmt(<<"Bar">>, TRUE)>>)>>)),
   File(Source(<<ImportItem("Child", Relative("d")),
                 ComponentItem("Foo", <<>>, <<JsxStmt(<<"Child">>, TRUE)>>)>>)),
   File(Component("Foo", <<Marker("Child")>>)),
   File(IndexSource)}

MenuC ==
  {Absent,
   File(Source(<<ImportItem("Child", Relative("d")),
                 ComponentItem("Bar", <<>>, <<JsxStmt(<<"Child">>, TRUE)>>)>>)),
   File(Component("Root", <<Marker("Child")>>)),
   File(Component("Root", <<>>)),
   File(Component("Root", <<Marker("Child"), MarkerOf(NumericArg(<<"1", ".", "5">>)),
                            MarkerOf(NumericArg(<<"1">>))>>)),
   File(Component("Root", <<MarkerOf(ComputedMemberArg("NS", <<"a", ".", "b">>)),
                            MarkerOf(MemberArg("NS", "Child")), Marker("Child"),
                            MarkerOf(DollarIdentArg("Child"))>>)),
   File(Component("Root", <<CallStmt(<<"x", ".", "isComponentPresent">>, <<IdentArg("Child")>>),
                            CallStmt(<<"other">>, <<IdentArg("Child")>>),
                            CallStmt(<<"isComponentPresent">>, <<>>),
                            Marker("Foo")>>)),
   File(Source(<<ComponentItem("Root", <<"props">>, <<Marker("Child"), Marker("Foo")>>)>>)),
   File(Source(<<ComponentItem("Root", <<>>, <<>>),
                 ComponentItem("Foo", <<"props">>, <<Marker("Child")>>)>>)),
   File(Source(<<ComponentItem("Root", <<"p">>, <<Marker("Child")>>)>>)),
   File(Source(<<ComponentItem("Root", <<"...", "args">>, <<Marker("Child")>>)>>)),
   File(Component("Root", <<CallStmt(<<"isComponentPresent">>, <<>>)>>)),
   File(Component("Root", <<NestedMarkerStmt("Child", "Root")>>))}

MenuD == {Absent, File(Component("Child", <<>>))}

MenuPkg == {Absent, File(Component("NS", <<Marker("Child")>>))}

Trees ==
  {[files |-> [s \in {"a", "b", "c", "d"} |->
                 CASE s = "a" -> a [] s = "b" -> b [] s = "c" -> c [] OTHER -> d],
    packages |-> [p \in {"pkg"} |-> pkg]] :
     a \in MenuA, b \in MenuB, c \in MenuC, d \in MenuD, pkg \in MenuPkg}

\* The files a caller hands to the analyzer, the specifiers it resolves and
\* the component names it asks about.
SourceFiles == {SrcFile("a"), SrcFile("b"), SrcFile("c")}

Specifiers == {Relative("b"), Relative("c"), Alias("b"), Bare("pkg")}

Targets == {Str("Child"), Dotted(Str("NS"), Str("Child"))}

Init ==
  /\ fs \in Trees
  /\ op = [name |-> "none"]
  /\ out = [tag |-> "none"]

\* resolve_import_path(import_source, current_file)
ResolveImport ==
  /\ op.name = "none"
  /\ \E import_source \in Specifiers :
       /\ op' = [name |-> "resolve_import_path", import_source |-> import_source,
                 current_file |-> SrcFile("a")]
       /\ out' = ResolveImportPath(fs, import_source, SrcFile("a"))
  /\ UNCHANGED fs

\* has_component(semantic, component_name, current_file) on the semantic
\* model of the file's text.
CheckHasComponent ==
  /\ op.name = "none"
  /\ \E current_file \in SourceFiles : \E component_name \in Targets :
       /\ ReadToString(fs, current_file).tag = "Ok"
       /\ LET code == ReadToString(fs, current_file).val
          IN  /\ code.parses
              /\ \E order \in IterationOrders(code) :
                   /\ op' = [name |-> "has_component", code |-> code,
                             component_name |-> component_name,
                             current_file |-> current_file]
                   /\ out' = HasComponent(fs, code, component_name, current_file, order)
  /\ UNCHANGED fs

\* The texts a caller passes for a path: the content of the file, or the
\* text of a buffer that differs from what is on disk; one buffer is the
\* patched form of a component definition with one marker call.
Buffers ==
  {Component("Bar", <<Marker("Child")>>),
   Source(<<ComponentItem("Root", <<"props", ":", " ", "any">>,
                          <<CallStmt(<<"isComponentPresent">>,
                                     <<IdentArg("Child"), PropsReadArg("Child")>>)>>)>>)}

SuppliedTexts(tree, file_path) ==
  Buffers \cup (IF ReadToString(tree, file_path).tag = "Ok"
                THEN {ReadToString(tree, file_path).val} ELSE {})

\* analyze_code_with_semantics(source_text, file_path)
Analyze ==
  /\ op.name = "none"
  /\ \E file_path \in SourceFiles : \E code \in SuppliedTexts(fs, file_path) :
       \E found \in FoundCalls(fs, code, file_path) :
         \E orders \in [1..Len(found) -> IterationOrders(code)] :
           /\ op' = [name |-> "analyze_code_with_semantics", code |-> code, file_path |-> file_path]
           /\ out' = AnalysisOfCalls(fs, code, file_path, found, orders)
  /\ UNCHANGED fs

\* analyze_and_transform_code(code, file_path)
AnalyzeAndTransform ==
  /\ op.name = "none"
  /\ \E file_path \in SourceFiles : \E code \in SuppliedTexts(fs, file_path) :
       \E found \in FoundCalls(fs, code, file_path) :
         \E orders \in [1..Len(found) -> IterationOrders(code)] :
           /\ op' = [name |-> "analyze_and_transform_code", code |-> code, file_path |-> file_path]
           /\ out' = ApplyResult(code.text, AnalysisOfCalls(fs, code, file_path, found, orders))
  /\ UNCHANGED fs

\* find_calls_in_file(file_path)
FindCalls ==
  /\ op.name = "none"
  /\ \E file_path \in SourceFiles :
       /\ op' = [name |-> "find_calls_in_file", file_path |-> file_path]
       /\ out' = FindCallsInFile(fs, file_path)
  /\ UNCHANGED fs

\* transform_components(semantic, file_path) on the semantic model of the
\* file's text.
Transform ==
  /\ op.name = "none"
  /\ \E file_path \in SourceFiles :
       /\ ReadToString(fs, file_path).tag = "Ok"
       /\ ReadToString(fs, file_path).val.parses
       /\ op' = [name |-> "transform_components",
                 code |-> ReadToString(fs, file_path).val, file_path |-> file_path]
       /\ out' = TransformComponents(fs, ReadToString(fs, file_path).val, file_path)
  /\ UNCHANGED fs

Next ==
  \/ ResolveImport
  \/ CheckHasComponent
  \/ Analyze
  \/ AnalyzeAndTransform
  \/ FindCalls
  \/ Transform

Spec == Init /\ [][Next]_vars

(***************************************************************************)
(* What the patch contract asks of a patch list.                           *)
(***************************************************************************)
InRange(code, t) == 0 <= t.start /\ t.start <= t.end /\ t.end <= Len(code)

\* Half-open ranges [start, end) that share no byte; an insertion overlaps a
\* range only when it lies strictly inside it.
Overlap(a, b) ==
  \/ a.start < b.end /\ b.start < a.end
  \/ a.start = a.end /\ b.start < a.start /\ a.start < b.end
  \/ b.start = b.end /\ a.start < b.start /\ b.start < a.end

WellFormed(code, ts) ==
  /\ \A i \in 1..Len(ts) : InRange(code, ts[i])
  /\ \A i, j \in 1..Len(ts) : i # j => ~Overlap(ts[i], ts[j])

Covered(ts, i) == \E k \in 1..Len(ts) : ts[k].start <= i /\ i < ts[k].end

StartingAt(ts, i) == SelectSeq(ts, LAMBDA t : t.start = i)

\* The text in which every range is replaced by its replacement and every
\* byte outside all ranges is kept, the patches of one offset in list order.
RECURSIVE PatchedFrom(_, _, _)
PatchedFrom(code, ts, i) ==
  LET here == Flatten([k \in 1..Len(StartingAt(ts, i)) |-> StartingAt(ts, i)[k].replacement])
  IN  IF i >= Len(code) THEN here
      ELSE here \o (IF Covered(ts, i) THEN <<>> ELSE <<code[i + 1]>>)
                \o PatchedFrom(code, ts, i + 1)

Patched(code, ts) == PatchedFrom(code, ts, 0)

Reorderings(ts) == {Reorder(ts, p) : p \in Perms(Len(ts))}

\* C1: for every text and every pairwise non-overlapping, in-range patch
\* list, in whatever order it is listed, the applicator returns the text in
\* which each range [start, end) is replaced by its replacement and every
\* byte outside all ranges is kept in order (the replacements of patches
\* that share an offset are all present there, in one order or another).
C1_PatchesApplied ==
  (op.name = "apply" /\ WellFormed(op.code, op.transformations)) =>
    /\ out.tag = "Ok"
    /\ \E q \in Reorderings(op.transformations) : out.text = Patched(op.code, q)

\* C2: a patch list holding two overlapping patches or an out-of-range patch
\* makes the applicator return an error, never Ok with some text.
C2_BadPatchesRejected ==
  (op.name = "apply" /\ ~WellFormed(op.code, op.transformations)) => out.tag = "Err"


(***************************************************************************)
(* What the claims about the analysis say of a project.                    *)
(***************************************************************************)
\* The parsed text of a file, Unparseable when there is none to parse.
Parsed(tree, path) ==
  IF ReadToString(tree, path).tag = "Ok" THEN ReadToString(tree, path).val ELSE Unparseable

\* The element names a text renders.
RenderedNames(src) ==
  {ExtractJsxElementName(src.nodes[i]) :
     i \in {j \in 1..Len(src.nodes) : src.nodes[j].kind = "JSXOpeningElement"}}

\* The text renders the target, by its own name or through a namespace.
Renders(src, target) ==
  \E name \in RenderedNames(src) : name = target \/ EndsWith(name, Spell(<<".">>) \o target)

\* The files of src/ whose component the text renders under a single name.
LocalComponentFiles(tree, src, file) ==
  {g \in SourceFiles \cup {SrcFile("d")} :
     \E name \in RenderedNames(src) :
       /\ ~ContainsDot(name)
       /\ FindImportSourceForComponent(src, name).tag = "Some"
       /\ FindImportSourceForComponent(src, name).val.form \in {"relative", "alias"}
       /\ ResolveImportPath(tree, FindImportSourceForComponent(src, name).val, file) = Ok(g)}

\* The files reached from `file` through at most n rendered local components.
RECURSIVE ReachableWithin(_, _, _, _)
ReachableWithin(tree, src, file, n) ==
  IF n = 0 THEN {file}
  ELSE {file} \cup UNION {ReachableWithin(tree, Parsed(tree, g), g, n - 1) :
                            g \in LocalComponentFiles(tree, src, file)}

MaxChain == 3

\* The text imports every namespace it renders through from a package, and
\* renders nothing else.
OnlyExternalUsages(src) ==
  /\ RenderedNames(src) # {}
  /\ \A name \in RenderedNames(src) :
       /\ Len(SplitDot(name)) = 2
       /\ FindImportSourceForComponent(src, SplitDot(name)[1]).tag = "Some"
       /\ FindImportSourceForComponent(src, SplitDot(name)[1]).val.form = "bare"

\* The text has a marker call whose target is `target`.
HasMarkerFor(src, file, target) ==
  \E i \in 1..Len(PresenceCallsOf(src, file)) :
    PresenceCallsOf(src, file)[i].component_name = target

\* The opening elements NS.Child of the text whose namespace is imported
\* from a file of src/ that has a marker call for Child.
DirectMatchUsages(tree, src, file) ==
  {n \in {src.nodes[i] : i \in {j \in 1..Len(src.nodes) :
                                  src.nodes[j].kind = "JSXOpeningElement"}} :
     /\ Len(n.segs) = 2 /\ n.segs[2] = "Child"
     /\ LET import_source == FindImportSourceForComponent(src, Str(n.segs[1]))
        IN  /\ import_source.tag = "Some"
            /\ import_source.val.form \in {"relative", "alias"}
            /\ LET g == ResolveImportPath(tree, import_source.val, file)
               IN  /\ g.tag = "Ok"
                   /\ HasMarkerFor(Parsed(tree, g.val), g.val, Str("Child"))}

InjectionText(name, b) ==
  Spell(<<" ">>) \o PropName(name) \o Spell(<<"=", "{">>) \o BoolText(b) \o Spell(<<"}">>)

RewriteText(name) ==
  Spell(<<"isComponentPresent", "(">>) \o name \o Spell(<<",", " ", "props", ".">>)
  \o PropName(name) \o Spell(<<")">>)

(***************************************************************************)
(* Claims about the analysis.                                              *)
(***************************************************************************)
\* C3: when the text given to analyze_code_with_semantics does not parse,
\* the call returns an error result and not a successful AnalysisResult.
C3_ParseFailureIsError ==
  (op.name = "analyze_code_with_semantics" /\ ~op.code.parses) => out.tag = "Err"

\* C4: for a top-level file that parses, has_component never returns an
\* error, whatever the state of the files its imports lead to.
C4_DependencyFailureIsNotFound ==
  (op.name = "has_component" /\ op.code.parses) => out.tag = "Ok"

\* C5: on a mutual-import graph (the start file renders a component of a
\* file that renders a component of the start file) in which no file
\* renders the target, has_component returns Ok(false).
C5_MutualImportNotFound ==
  (/\ op.name = "has_component"
   /\ \E g \in LocalComponentFiles(fs, op.code, op.current_file) :
        /\ g # op.current_file
        /\ op.current_file \in LocalComponentFiles(fs, Parsed(fs, g), g)
   /\ \A f \in SourceFiles \cup {SrcFile("d")} : ~Renders(Parsed(fs, f), op.component_name))
  => out = Ok(FALSE)

\* C6: has_component returns Ok(true) whenever the target is rendered in a
\* file reachable from the start file through a chain, of any length, of
\* locally imported rendered components.
C6_TransitiveReachability ==
  (/\ op.name = "has_component"
   /\ \E g \in ReachableWithin(fs, op.code, op.current_file, MaxChain) :
        Renders(Parsed(fs, g), op.component_name))
  => out = Ok(TRUE)

\* C7: a usage NS.X whose namespace NS is imported from a package never
\* makes has_component return true.
C7_ExternalNamespaceNoMatch ==
  (op.name = "has_component" /\ OnlyExternalUsages(op.code)) => out # Ok(TRUE)

\* C8: analysis of a consumer that renders NS.Child with NS imported from a
\* package emits no patch and records no marker call (so no file was read
\* on behalf of the package specifier).
C8_ExternalImportScenario ==
  (op.name = "analyze_code_with_semantics" /\ OnlyExternalUsages(op.code))
  => /\ out.tag = "Ok"
     /\ out.val.transformations = <<>>
     /\ out.val.calls = <<>>

\* C9: resolve_import_path fails for every specifier that is neither
\* relative nor of the alias form, whatever the file tree holds.
C9_BareSpecifierFails ==
  (op.name = "resolve_import_path" /\ op.import_source.form \notin {"relative", "alias"})
  => out.tag = "Err"

\* C10: analysis of a file that renders Foo.Child, with Foo imported from a
\* local file that has a marker call for Child, returns verdict true and an
\* insertion of __qwik_analyzer_has_Child={true} inside that opening
\* element; analysis of a file with a marker call for Child returns a
\* patch that replaces the call by the call with props.__qwik_analyzer_has_Child
\* as second argument.
C10_DirectMatchScenario ==
  op.name = "analyze_code_with_semantics" =>
    /\ \A n \in DirectMatchUsages(fs, op.code, op.file_path) :
         /\ out.tag = "Ok"
         /\ out.val.has_description
         /\ \E i \in 1..Len(out.val.transformations) :
              LET t == out.val.transformations[i]
              IN  /\ t.start = t.end
                  /\ n.start < t.start /\ t.start < n.end
                  /\ t.replacement = InjectionText(Str("Child"), TRUE)
    /\ (op.code.parses /\ HasMarkerFor(op.code, op.file_path, Str("Child"))) =>
         /\ out.tag = "Ok"
         /\ \E i \in 1..Len(out.val.transformations) :
              LET t == out.val.transformations[i]
              IN  /\ \E j \in 1..Len(op.code.nodes) :
                       /\ op.code.nodes[j].kind = "CallExpression"
                       /\ t.start = op.code.nodes[j].start
                       /\ t.end = op.code.nodes[j].end
                  /\ t.replacement = RewriteText(Str("Child"))

\* The files an index text passes `name` on from.
ReExportTargets(tree, index, index_file, name) ==
  {g \in SourceFiles \cup {SrcFile("d")} :
     \E i \in 1..Len(index.nodes) :
       /\ index.nodes[i].kind = "ExportNamedDeclaration"
       /\ index.nodes[i].source # NoSource
       /\ \E k \in 1..Len(index.nodes[i].specifiers) : index.nodes[i].specifiers[k] = name
       /\ ResolveImportPath(tree, index.nodes[i].source, index_file) = Ok(g)}

\* The index files the text imports the namespace NS from.
NamespaceIndexes(tree, src, file) ==
  {g \in SourceFiles \cup {SrcFile("d")} :
     /\ FindImportSourceForComponent(src, Str("NS")).tag = "Some"
     /\ FindImportSourceForComponent(src, Str("NS")).val.form \in {"relative", "alias"}
     /\ ResolveImportPath(tree, FindImportSourceForComponent(src, Str("NS")).val, file) = Ok(g)}

\* The root files of the indirection scenario seen from a consumer: the
\* consumer renders NS.Root only, the index NS is imported from re-exports
\* Root from the root file and Child from a file of its own, and the root
\* file has a marker call for Child.
IndirectionRoots(tree, src, file) ==
  {r \in SourceFiles \cup {SrcFile("d")} :
     /\ src.parses
     /\ RenderedNames(src) = {Dotted(Str("NS"), Str("Root"))}
     /\ \E g \in NamespaceIndexes(tree, src, file) :
          /\ r \in ReExportTargets(tree, Parsed(tree, g), g, "Root")
          /\ \E i \in 1..Len(Parsed(tree, g).nodes) :
               /\ Parsed(tree, g).nodes[i].kind = "ExportNamedDeclaration"
               /\ Parsed(tree, g).nodes[i].source # NoSource
               /\ Parsed(tree, g).nodes[i].specifiers = <<"Child">>
     /\ HasMarkerFor(Parsed(tree, r), r, Str("Child"))}

\* A patch that inserts text inside an opening element of the text.
IsInjection(src, t) ==
  /\ t.start = t.end
  /\ \E i \in 1..Len(src.nodes) :
       /\ src.nodes[i].kind = "JSXOpeningElement"
       /\ src.nodes[i].start < t.start /\ t.start < src.nodes[i].end

\* A patch that replaces a marker call for `name` of the text by the call
\* with the synthetic prop as second argument.
IsRewriteOf(src, t, name) ==
  /\ t.replacement = RewriteText(name)
  /\ \E j \in 1..Len(src.nodes) :
       /\ src.nodes[j].kind = "CallExpression"
       /\ t.start = src.nodes[j].start
       /\ t.end = src.nodes[j].end

\* C11: in the indirection scenario (an index re-exports Root from the root
\* file and Child from the child file, the consumer renders NS.Root only,
\* the root file has a marker call for Child) analysis of the consumer
\* returns verdict false and no injection patch, and analysis of the root
\* file returns the patch that rewrites its marker call (each file analysed
\* with its own text).
C11_IndirectionScenario ==
  (op.name = "analyze_code_with_semantics" /\ ReadToString(fs, op.file_path) = Ok(op.code)) =>
    /\ IndirectionRoots(fs, op.code, op.file_path) # {} =>
         /\ out.tag = "Ok"
         /\ ~out.val.has_description
         /\ \A i \in 1..Len(out.val.transformations) :
              ~IsInjection(op.code, out.val.transformations[i])
    /\ (\E f \in SourceFiles : op.file_path \in IndirectionRoots(fs, Parsed(fs, f), f)) =>
         /\ out.tag = "Ok"
         /\ \E i \in 1..Len(out.val.transformations) :
              IsRewriteOf(op.code, out.val.transformations[i], Str("Child"))

\* The consumer of the indirection scenario was analysed, and the marker call
\* of the root file was found through the index.
C11_ConsumerAnalysed ==
  /\ op.name = "analyze_code_with_semantics"
  /\ ReadToString(fs, op.file_path) = Ok(op.code)
  /\ IndirectionRoots(fs, op.code, op.file_path) # {}
  /\ out.tag = "Ok"
  /\ \E i \in 1..Len(out.val.calls) :
       out.val.calls[i].source_file \in IndirectionRoots(fs, op.code, op.file_path)

\* The calls of the text whose callee is the bare identifier
\* isComponentPresent and that have an argument.
MarkerCalls(src) ==
  SelectSeq(src.nodes, LAMBDA n :
    /\ n.kind = "CallExpression"
    /\ n.callee = [kind |-> "Identifier", name |-> "isComponentPresent"]
    /\ n.arguments # <<>>)

\* The first argument is a bare identifier or a dotted member reference.
HasValidTarget(call) == call.arguments[1].kind \in {"Identifier", "StaticMemberExpression"}

ValidMarkerCalls(src) == SelectSeq(MarkerCalls(src), HasValidTarget)

MalformedMarkerCalls(src) == SelectSeq(MarkerCalls(src), LAMBDA c : ~HasValidTarget(c))

\* Some patch of the list replaces exactly the span of the call.
PatchedCall(ts, call) ==
  \E i \in 1..Len(ts) : ts[i].start = call.start /\ ts[i].end = call.end

\* C12: a marker call whose first argument is a numeric literal, or any
\* shape other than a bare identifier or a dotted member reference, is not
\* recorded by find_calls_in_file and gets no patch from transform_components,
\* while the valid marker calls of the same file are recorded and patched.
C12_MalformedArgumentSkipped ==
  /\ (op.name = "find_calls_in_file" /\ out.tag = "Ok") =>
       out.val = [i \in 1..Len(ValidMarkerCalls(Parsed(fs, op.file_path))) |->
                    ComponentPresenceCall(
                      ValidMarkerCalls(Parsed(fs, op.file_path))[i].arguments[1].text,
                      FALSE, op.file_path)]
  /\ (op.name = "transform_components" /\ out.tag = "Ok") =>
       /\ \A i \in 1..Len(MalformedMarkerCalls(op.code)) :
            ~PatchedCall(out.val, MalformedMarkerCalls(op.code)[i])
       /\ \A i \in 1..Len(ValidMarkerCalls(op.code)) :
            PatchedCall(out.val, ValidMarkerCalls(op.code)[i])

\* The number of elements of a list that satisfy a test.
Count(seq, Test(_)) == Cardinality({i \in 1..Len(seq) : Test(seq[i])})

\* The names under which calls of the text could be recorded.
TargetTexts(src) ==
  {src.nodes[i].arguments[1].text :
     i \in {j \in 1..Len(src.nodes) :
              src.nodes[j].kind = "CallExpression" /\ src.nodes[j].arguments # <<>>}}

\* C13: find_calls_in_file records calls of the marker shape only (callee
\* the bare identifier isComponentPresent, at least one argument): under
\* every name there are at most as many records as marker calls with that
\* target, so a call through a member callee, a call of another identifier
\* and a call without argument are never recorded; and each marker call
\* whose target is an identifier or a dotted member reference is recorded
\* exactly once.
C13_MarkerCallShape ==
  (op.name = "find_calls_in_file" /\ out.tag = "Ok") =>
    /\ \A i \in 1..Len(out.val) :
         out.val[i].component_name \in TargetTexts(Parsed(fs, op.file_path))
    /\ \A name \in TargetTexts(Parsed(fs, op.file_path)) :
         /\ Count(out.val, LAMBDA call : call.component_name = name)
              <= Count(MarkerCalls(Parsed(fs, op.file_path)),
                       LAMBDA c : c.arguments[1].text = name)
         /\ Count(out.val, LAMBDA call : call.component_name = name)
              >= Count(ValidMarkerCalls(Parsed(fs, op.file_path)),
                       LAMBDA c : c.arguments[1].text = name)

\* find_calls_in_file ran on a file that has a marker call next to a call
\* through a member callee, a call of another identifier and a marker call
\* without argument, and recorded a call.
C13_ShapesSeen ==
  /\ op.name = "find_calls_in_file"
  /\ out.tag = "Ok"
  /\ out.val # <<>>
  /\ \E i, j, k \in 1..Len(Parsed(fs, op.file_path).nodes) :
       /\ Parsed(fs, op.file_path).nodes[i].kind = "CallExpression"
       /\ Parsed(fs, op.file_path).nodes[i].callee
            = [kind |-> "StaticMemberExpression", name |-> "isComponentPresent"]
       /\ Parsed(fs, op.file_path).nodes[j].kind = "CallExpression"
       /\ Parsed(fs, op.file_path).nodes[j].callee = [kind |-> "Identifier", name |-> "other"]
       /\ Parsed(fs, op.file_path).nodes[k].kind = "CallExpression"
       /\ Parsed(fs, op.file_path).nodes[k].callee
            = [kind |-> "Identifier", name |-> "isComponentPresent"]
       /\ Parsed(fs, op.file_path).nodes[k].arguments = <<>>

\* The functions handed to component$ in the text.
ComponentFunctions(src) ==
  {src.nodes[i].arguments[1] :
     i \in {j \in 1..Len(src.nodes) :
              /\ src.nodes[j].kind = "CallExpression"
              /\ src.nodes[j].callee = [kind |-> "Identifier", name |-> "component$"]
              /\ src.nodes[j].arguments # <<>>
              /\ src.nodes[j].arguments[1].kind = "ArrowFunctionExpression"}}

\* The marker calls written inside a function.
MarkerCallsIn(src, function) ==
  SelectSeq(MarkerCalls(src), LAMBDA c : function.start <= c.start /\ c.end <= function.end)

\* The patches of a list that add the props parameter inside a function.
ParameterInsertions(ts, function) ==
  SelectSeq(ts, LAMBDA t :
    /\ t.start = t.end
    /\ t.replacement = Spell(<<"props", ":", " ", "any">>)
    /\ function.start <= t.start /\ t.start <= function.end)

\* The patch list an operation returned, empty when it returned none.
PatchesOf(name, result) ==
  IF result.tag # "Ok" THEN <<>>
  ELSE IF name = "transform_components" THEN result.val
  ELSE IF name = "analyze_code_with_semantics" THEN result.val.transformations
  ELSE <<>>

\* The function declares a parameter: an item of its parameter list or a
\* rest parameter.
DeclaresAParameter(function) == function.params.items > 0 \/ function.params.rest

\* C14: the patch list of transform_components (alone or as part of the
\* analysis) has at most one insertion of the props parameter per component
\* function, however many marker calls the function has, and none for a
\* function that declares a parameter.
C14_OneParameterInsertion ==
  op.name \in {"transform_components", "analyze_code_with_semantics"} =>
    \A function \in ComponentFunctions(op.code) :
      /\ Len(ParameterInsertions(PatchesOf(op.name, out), function)) <= 1
      /\ DeclaresAParameter(function) =>
           ParameterInsertions(PatchesOf(op.name, out), function) = <<>>

\* The symbols of a text that are neither letters nor digits.
Punctuation == {".", "[", "]", "'", "$", " ", ",", "(", ")"}

\* The name with every non-alphanumeric character replaced by "_".
Sanitized(name) == [i \in 1..Len(name) |-> IF name[i] \in Punctuation THEN "_" ELSE name[i]]

\* The rewritten call the patch contract asks for.
SanitizedRewriteText(arg_text) ==
  Spell(<<"isComponentPresent", "(">>) \o arg_text
  \o Spell(<<",", " ", "props", ".", "__qwik_analyzer_has_">>) \o Sanitized(arg_text)
  \o Spell(<<")">>)

\* C15: for every marker call whose target is an identifier or a dotted
\* member reference, the patch list of transform_components has exactly one
\* patch over the span of the call, and it replaces the call by
\* isComponentPresent(<argument text>, props.__qwik_analyzer_has_<N>), N
\* being the target with every non-alphanumeric character replaced by "_".
C15_CallRewrite ==
  (op.name = "transform_components" /\ out.tag = "Ok") =>
    \A i \in 1..Len(ValidMarkerCalls(op.code)) :
      /\ Count(out.val, LAMBDA t : /\ t.start = ValidMarkerCalls(op.code)[i].start
                                   /\ t.end = ValidMarkerCalls(op.code)[i].end) = 1
      /\ \A k \in 1..Len(out.val) :
           (/\ out.val[k].start = ValidMarkerCalls(op.code)[i].start
            /\ out.val[k].end = ValidMarkerCalls(op.code)[i].end)
           => out.val[k].replacement
                = SanitizedRewriteText(ValidMarkerCalls(op.code)[i].arguments[1].text)

\* The file that defines the component a usage names, through the import of
\* its first name and, for NS.X, the index of the module: the file the
\* index re-exports X from, or the imported file itself when it re-exports
\* no X.  A usage whose import is not found, does not resolve or leads to a
\* package has none.
ImportedFiles(tree, src, file, local) ==
  {g \in {SrcFile("a"), SrcFile("b"), SrcFile("c"), SrcFile("d"), SrcIndex("b")} :
     /\ FindImportSourceForComponent(src, Str(local)).tag = "Some"
     /\ FindImportSourceForComponent(src, Str(local)).val.form \in {"relative", "alias"}
     /\ \E m \in {SrcFile("a"), SrcFile("b"), SrcFile("c"), SrcFile("d"), SrcDir("b"),
                   SrcIndex("b")} :
          /\ ResolveImportPath(tree, FindImportSourceForComponent(src, Str(local)).val, file)
               = Ok(m)
          /\ IndexFileIn(tree, m) = Some(g)}

UsageFiles(tree, src, file, element) ==
  IF Len(element.segs) = 1 THEN ImportedFiles(tree, src, file, element.segs[1])
  ELSE IF Len(element.segs) = 2
       THEN UNION {IF ReExportTargets(tree, Parsed(tree, g), g, element.segs[2]) # {}
                   THEN ReExportTargets(tree, Parsed(tree, g), g, element.segs[2])
                   ELSE {g} : g \in ImportedFiles(tree, src, file, element.segs[1])}
  ELSE {}

OpeningElements(src) ==
  {src.nodes[i] : i \in {j \in 1..Len(src.nodes) : src.nodes[j].kind = "JSXOpeningElement"}}

\* Some patch of the list inserts the text just before the ">" that closes
\* the opening element.
InjectedAt(ts, element, text) ==
  \E i \in 1..Len(ts) :
    /\ ts[i].start = ts[i].end
    /\ ts[i].start = element.end - 1
    /\ ts[i].replacement = text

\* C16: when transform_file runs, a usage of the analysed file has an
\* insertion of __qwik_analyzer_has_<name>={verdict} just before its
\* closing ">" for a discovered marker call exactly when the usage resolves,
\* through its import and the index of the module, to the file that holds
\* such a call; a usage that resolves elsewhere, to a package or not at all
\* has none.
C16_InjectionIffResolves ==
  (op.name = "analyze_code_with_semantics" /\ out.tag = "Ok" /\ out.val.has_description) =>
    \A element \in OpeningElements(op.code) : \A i \in 1..Len(out.val.calls) :
      InjectedAt(out.val.transformations, element,
                 InjectionText(out.val.calls[i].component_name,
                               out.val.calls[i].is_present_in_subtree))
      <=> \E k \in 1..Len(out.val.calls) :
            /\ out.val.calls[k].component_name = out.val.calls[i].component_name
            /\ out.val.calls[k].is_present_in_subtree = out.val.calls[i].is_present_in_subtree
            /\ out.val.calls[k].source_file \in UsageFiles(fs, op.code, op.file_path, element)

\* C17: in every patch list analyze_code_with_semantics returns, two
\* distinct patches have disjoint ranges: no replaced range meets another
\* one and no insertion point lies strictly inside a replaced range.
C17_PatchesDisjoint ==
  (op.name = "analyze_code_with_semantics" /\ out.tag = "Ok") =>
    \A i, j \in 1..Len(out.val.transformations) :
      i # j => ~Overlap(out.val.transformations[i], out.val.transformations[j])

\* The patches of a list that inject the synthetic prop of `name` at a usage.
InjectionsOf(ts, element, name) ==
  SelectSeq(ts, LAMBDA t :
    /\ t.start = t.end
    /\ t.start = element.end - 1
    /\ t.replacement \in {InjectionText(name, TRUE), InjectionText(name, FALSE)})

\* C18: in the patch list analyze_code_with_semantics returns, a usage has
\* at most one injection per synthetic prop name, also when the same marker
\* call is discovered through several usages, and no two patches of the
\* list are identical.
C18_NoDuplicatePatches ==
  (op.name = "analyze_code_with_semantics" /\ out.tag = "Ok") =>
    /\ \A element \in OpeningElements(op.code) : \A i \in 1..Len(out.val.calls) :
         Len(InjectionsOf(out.val.transformations, element,
                          out.val.calls[i].component_name)) <= 1
    /\ \A i, j \in 1..Len(out.val.transformations) :
         i # j => out.val.transformations[i] # out.val.transformations[j]

\* The iteration orders a run may meet: one for the collection of the calls
\* and one for each has_component query.
QueryOrders(src, found) == [1..Len(found) -> IterationOrders(src)]

\* C19: the result of analyze_code_with_semantics (verdict and ordered patch
\* list) and the text analyze_and_transform_code returns are those of every
\* other run on the same text, path and file tree, whatever the iteration
\* order of the set of JSX component names (for some order in which the
\* directory is listed).
C19_Deterministic ==
  /\ op.name = "analyze_code_with_semantics" =>
       \A order \in IterationOrders(op.code) :
         \E found \in FoundUnder(fs, op.code, op.file_path, order) :
           \A orders \in QueryOrders(op.code, found) :
             out = AnalysisOfCalls(fs, op.code, op.file_path, found, orders)
  /\ op.name = "analyze_and_transform_code" =>
       \A order \in IterationOrders(op.code) :
         \E found \in FoundUnder(fs, op.code, op.file_path, order) :
           \A orders \in QueryOrders(op.code, found) :
             out = ApplyResult(op.code.text,
                               AnalysisOfCalls(fs, op.code, op.file_path, found, orders))

\* The patch is the replacement of the span of a marker call of the text.
IsMarkerCallSpan(src, t) ==
  \E i \in 1..Len(MarkerCalls(src)) :
    t.start = MarkerCalls(src)[i].start /\ t.end = MarkerCalls(src)[i].end

\* The patch is an insertion inside the parameter list of a component
\* function of the text.
IsInParameterList(src, t) ==
  /\ t.start = t.end
  /\ \E function \in ComponentFunctions(src) :
       /\ function.start + 1 <= t.start
       /\ t.start <= function.start + 1 + Len(function.param_text)

\* C20: every patch analyze_code_with_semantics returns for a text lies
\* within the text, 0 <= start <= end <= len(text), and is the span of a
\* marker call of the text, a point inside the parameter list of a
\* component function of the text, or a point inside an opening element of
\* the text.
C20_PatchesReferToText ==
  (op.name = "analyze_code_with_semantics" /\ out.tag = "Ok") =>
    \A i \in 1..Len(out.val.transformations) :
      /\ InRange(op.code.text, out.val.transformations[i])
      /\ \/ IsMarkerCallSpan(op.code, out.val.transformations[i])
         \/ IsInParameterList(op.code, out.val.transformations[i])
         \/ IsInjection(op.code, out.val.transformations[i])

\* The patches of a list that belong to the analysed file's own marker
\* calls: the parameter insertion and the replacements of calls.
OwnPatches(ts) ==
  SelectSeq(ts, LAMBDA t : t.start < t.end \/ t.replacement = Spell(<<"props", ":", " ", "any">>))

\* The file tree in which the file at `path` holds the text.
OnDisk(tree, path, src) == [tree EXCEPT !.files[path.stem] = File(src)]

\* C30: the own patches of analyze_code_with_semantics(text, path) depend on
\* the text alone: whatever the file at path holds on disk (another text,
\* nothing, a shorter text), the call does not panic, fails only if it also
\* fails when the file holds the text, and the parameter insertion and the
\* call replacements are those computed from the text.
C30_OwnPatchesFromTextOnly ==
  (op.name = "analyze_code_with_semantics" /\ op.code.parses) =>
    /\ out.tag # "Panic"
    /\ out.tag = "Ok" =>
         OwnPatches(out.val.transformations)
           = TransformComponents(OnDisk(fs, op.file_path, op.code), op.code, op.file_path).val
    /\ out.tag = "Err" =>
         \E found \in FoundCalls(OnDisk(fs, op.file_path, op.code), op.code, op.file_path) :
           \E orders \in QueryOrders(op.code, found) :
             AnalysisOfCalls(OnDisk(fs, op.file_path, op.code), op.code,
                             op.file_path, found, orders).tag = "Err"

\* Every file of the tree a query can visit.
TreeFiles == {SrcFile("a"), SrcFile("b"), SrcFile("c"), SrcFile("d"), SrcIndex("b"), PkgMain("pkg")}

\* C29: has_component returns true only if the target is rendered, under its
\* own name or through a namespace, in the start file or in some file of the
\* tree; a marker call for the target in an imported file, the target being
\* rendered nowhere, does not make it true.
C29_NoFalsePositive ==
  (op.name = "has_component" /\ out = Ok(TRUE)) =>
    \/ Renders(op.code, op.component_name)
    \/ \E f \in TreeFiles : Renders(Parsed(fs, f), op.component_name)

\* The patches of a list that inject an attribute.
AttributeInjections(ts) ==
  SelectSeq(ts, LAMBDA t : t.start = t.end /\ Len(t.replacement) > 1 /\ t.replacement[1] = " ")

\* The offset at which the terminator of an opening element starts: that of
\* "/" for a self-closing element, that of ">" otherwise.
TerminatorOffset(src, element) ==
  IF src.text[element.end - 1] = "/" THEN element.end - 2 ELSE element.end - 1

\* C28: every attribute analyze_code_with_semantics injects is inserted in
\* an opening element of the text right before its terminator: before ">",
\* and for a self-closing element before "/", never between "/" and ">".
C28_InjectionBeforeTerminator ==
  (op.name = "analyze_code_with_semantics" /\ out.tag = "Ok") =>
    \A i \in 1..Len(AttributeInjections(out.val.transformations)) :
      \E element \in OpeningElements(op.code) :
        AttributeInjections(out.val.transformations)[i].start
          = TerminatorOffset(op.code, element)

\* The calls of the bare identifier isComponentPresent, with or without
\* arguments, written inside a function.
AnyMarkerCallsIn(src, function) ==
  SelectSeq(src.nodes, LAMBDA n :
    /\ n.kind = "CallExpression"
    /\ n.callee = [kind |-> "Identifier", name |-> "isComponentPresent"]
    /\ function.start <= n.start /\ n.end <= function.end)

\* C25: the parameter insertion of transform_components goes to the
\* component$ definitions that enclose a marker call: a component function
\* gets the props parameter exactly when it declares no parameter and
\* contains a marker call, so in a file with several definitions one without
\* marker calls is never given a parameter.
C25_InsertionInEnclosingDefinition ==
  (op.name = "transform_components" /\ out.tag = "Ok") =>
    \A function \in ComponentFunctions(op.code) :
      Len(ParameterInsertions(out.val, function)) = 1
        <=> (~DeclaresAParameter(function) /\ AnyMarkerCallsIn(op.code, function) # <<>>)

\* The function of the text declares a parameter of the name, with or
\* without a type.
DeclaresParameter(function, name) ==
  \/ function.param_text = Str(name)
  \/ /\ Len(function.param_text) > Len(Str(name))
     /\ SubSeq(function.param_text, 1, Len(Str(name)) + 1) = Str(name) \o Spell(<<":">>)

\* The patches of a list that replace a marker call of the text.
CallRewrites(src, ts) == SelectSeq(ts, LAMBDA t : IsMarkerCallSpan(src, t))

\* Once the patches are applied, the function declares a parameter named
\* props: it declared one, or the insertion of the parameter is among the
\* patches and lies in its parameter list.
DeclaresPropsAfter(src, ts, function) ==
  \/ DeclaresParameter(function, "props")
  \/ \E i \in 1..Len(ts) :
       /\ ts[i].replacement = Spell(<<"props", ":", " ", "any">>)
       /\ ts[i].start = function.start + 1
       /\ ts[i].end = ts[i].start

\* C27: every marker call that transform_components rewrites to read
\* props.<name> lies inside a component function that declares a parameter
\* named props once the patches are applied, whether the function had no
\* parameter or already had one with another name.
C27_RewrittenCallHasProps ==
  (op.name = "transform_components" /\ out.tag = "Ok") =>
    \A i \in 1..Len(CallRewrites(op.code, out.val)) :
      \E function \in ComponentFunctions(op.code) :
        /\ function.start <= CallRewrites(op.code, out.val)[i].start
        /\ CallRewrites(op.code, out.val)[i].end <= function.end
        /\ DeclaresPropsAfter(op.code, out.val, function)

\* The text is a component definition file: it parses and imports nothing.
IsDefinitionFile(src) == src.parses /\ NodesOfKind(src, "ImportDeclaration") = <<>>

\* The patched output of the definition file at the path: its text with the
\* patches of transform_components applied.
PatchedOutput(tree, file_path) ==
  ApplyTransformations(ReadToString(tree, file_path).val.text,
    TransformComponents(tree, ReadToString(tree, file_path).val, file_path).val).text

\* The text is the patched output of the definition file at the path, and
\* that file has a marker call that was rewritten.
IsPatchedOutputOf(tree, src, file_path) ==
  /\ ReadToString(tree, file_path).tag = "Ok"
  /\ IsDefinitionFile(ReadToString(tree, file_path).val)
  /\ ValidMarkerCalls(ReadToString(tree, file_path).val) # <<>>
  /\ TransformComponents(tree, ReadToString(tree, file_path).val, file_path).tag = "Ok"
  /\ src.text = PatchedOutput(tree, file_path)

\* C21: idempotence on re-analysis: when the patched output of a component
\* definition file (one injected parameter, every marker call with two
\* arguments) is analysed and patched again for the same path, the second
\* pass leaves the text unchanged.
C21_SecondPassUnchanged ==
  (op.name = "analyze_and_transform_code" /\ IsPatchedOutputOf(fs, op.code, op.file_path)) =>
    out = [tag |-> "Ok", text |-> op.code.text]

\* Some patch of the list injects the synthetic prop of the call with the
\* call's own verdict.
HasInjectionFor(ts, call) ==
  \E i \in 1..Len(ts) :
    /\ ts[i].start = ts[i].end
    /\ ts[i].replacement = InjectionText(call.component_name, call.is_present_in_subtree)

\* C26: the verdict has_description of analyze_code_with_semantics is the
\* disjunction of the verdicts of the marker calls discovered in imported
\* components; when it is false no usage-site injection is emitted, and when
\* it is true every discovered call, also one whose own verdict is false,
\* yields an injection that carries its own verdict.
C26_InjectionsIffAnyPresent ==
  (op.name = "analyze_code_with_semantics" /\ out.tag = "Ok") =>
    /\ out.val.has_description
         <=> \E i \in 1..Len(out.val.calls) : out.val.calls[i].is_present_in_subtree
    /\ ~out.val.has_description => AttributeInjections(out.val.transformations) = <<>>
    /\ out.val.has_description =>
         \A i \in 1..Len(out.val.calls) :
           HasInjectionFor(out.val.transformations, out.val.calls[i])

(***************************************************************************)
(* The module lookup specification: the JSX names of a text, the lookup of *)
(* a component in the index of a module, and the marker calls found        *)
(* through a usage.  src/b is the module: a file or a directory with an    *)
(* index.                                                                  *)
(***************************************************************************)
ElementNames ==
  {<<"Foo">>, <<"Link">>, <<"Button">>, <<"Input">>, <<"Label">>, <<"div">>, <<"Object">>,
   <<"NS", "Child">>, <<"NS", "Root", "Child">>}

\* import { N } from './b'; and a component that renders one or two elements.
JsxTexts ==
  {Consumer(n[1], Relative("b"), <<JsxStmt(n, TRUE)>>) : n \in ElementNames}
  \cup {Consumer(n[1], Relative("b"), <<JsxStmt(n, TRUE), JsxStmt(m, FALSE)>>) :
          n \in ElementNames, m \in ElementNames}

IndexMenu ==
  {Absent, File(Unparseable), File(IndexSource), Dir(File(IndexSource)),
   File(Source(<<ReExportItem("Root", NoSource), ReExportItem("Root", Relative("c"))>>)),
   File(Source(<<ImportItem("Foo", Relative("c")), ObjectItem("NS", "Root", IdentArg("Foo"))>>)),
   File(Source(<<ObjectItem("NS", "Root", IdentArg("Foo"))>>)),
   File(Source(<<ImportItem("Foo", Relative("c")),
                 ObjectItem("NS", "Root", MemberArg("Foo", "Bar"))>>)),
   File(Source(<<ReExportItem("Root", Relative("d")), ImportItem("Foo", Relative("c")),
                 ObjectItem("NS", "Root", IdentArg("Foo"))>>)),
   File(Source(<<ImportItem("Foo", Relative("c")), ObjectItem("NS", "Root", IdentArg("Foo")),
                 ReExportItem("Root", Relative("d"))>>)),
   File(Component("Root", <<Marker("Child")>>))}

ModuleTrees ==
  {[files |-> [s \in {"a", "b", "c", "d"} |->
                 CASE s = "a" -> File(Consumer("NS", Relative("b"),
                                               <<JsxStmt(<<"NS", "Root">>, TRUE)>>))
                   [] s = "b" -> b [] s = "c" -> c [] OTHER -> d],
    packages |-> [p \in {"pkg"} |-> Absent]] :
     b \in IndexMenu,
     c \in {Absent, File(Component("Root", <<Marker("Child")>>))},
     d \in {Absent, File(Component("Child", <<Marker("Foo")>>))}}

ModuleConsumers ==
  {Consumer("NS", Relative("b"), <<JsxStmt(<<"NS", "Root">>, TRUE)>>),
   Consumer("NS", Alias("b"), <<JsxStmt(<<"NS", "Root">>, TRUE)>>),
   Consumer("NS", Relative("b"), <<JsxStmt(<<"NS", "Root", "Child">>, TRUE)>>)}

InitModule ==
  /\ fs \in ModuleTrees
  /\ op = [name |-> "none"]
  /\ out = [tag |-> "none"]

\* extract_imported_jsx_components(semantic)
ExtractJsx ==
  /\ op.name = "none"
  /\ \E code \in JsxTexts : \E order \in IterationOrders(code) :
       /\ op' = [name |-> "extract_imported_jsx_components", code |-> code]
       /\ out' = ExtractImportedJsxComponents(code, order)
  /\ UNCHANGED fs

\* resolve_component_from_index(index_file_path, component_name)
ResolveFromIndex ==
  /\ op.name = "none"
  /\ \E index_file_path \in {SrcFile("b"), SrcIndex("b")} :
       \E component_name \in {Str("Root"), Str("Child")} :
         /\ op' = [name |-> "resolve_component_from_index",
                   index_file_path |-> index_file_path, component_name |-> component_name]
         /\ out' = ResolveComponentFromIndex(fs, index_file_path, component_name)
  /\ UNCHANGED fs

\* find_presence_calls(semantic, jsx_component, current_file) for an element
\* name of the text.
FindPresence ==
  /\ op.name = "none"
  /\ \E code \in ModuleConsumers : \E element \in OpeningElements(code) :
       \E listing \in ListingOrders(fs) :
         /\ op' = [name |-> "find_presence_calls", code |-> code,
                   jsx_component |-> ExtractJsxElementName(element),
                   file_path |-> SrcFile("a")]
         /\ out' = FindPresenceCalls(fs, code, ExtractJsxElementName(element), SrcFile("a"),
                                     listing)
  /\ UNCHANGED fs

NextModule ==
  \/ ExtractJsx
  \/ ResolveFromIndex
  \/ FindPresence

SpecModule == InitModule /\ [][NextModule]_vars

\* The names a sequence of names holds.
Range(seq) == {seq[i] : i \in 1..Len(seq)}

\* The identifiers that start with an uppercase ASCII letter.
StartsUppercase(ident) == ident \notin {"div", "t", "this"}

\* The lower-cased form of a name used by the texts.
LowerCased(ident) ==
  CASE ident = "Foo" -> "foo" [] ident = "Link" -> "link" [] ident = "Button" -> "button"
    [] ident = "Input" -> "input" [] ident = "Label" -> "label" [] ident = "Object" -> "object"
    [] OTHER -> ident

\* The single-identifier names that are to be kept: an uppercase identifier
\* that is no reserved word or global object and whose lower-cased form is
\* no HTML tag.
KeptName(ident) ==
  /\ StartsUppercase(ident)
  /\ ident \notin {"Object", "Array", "this"}
  /\ LowerCased(ident) \notin {"div", "link", "a", "b", "button", "input", "label", "object"}

\* C22: extract_imported_jsx_components keeps a single-identifier element
\* name exactly when it starts with an uppercase letter, is no reserved word
\* or global object and its lower-cased form is no HTML tag: Button, Input,
\* Label and Link are dropped, every other uppercase component is kept.
C22_SingleNameKept ==
  op.name = "extract_imported_jsx_components" =>
    /\ \A element \in OpeningElements(op.code) :
         Len(element.segs) = 1 =>
           (Str(element.segs[1]) \in Range(out) <=> KeptName(element.segs[1]))
    /\ \A ident \in {"Button", "Input", "Label", "Link"} : Str(ident) \notin Range(out)

\* A text that renders Link and Foo was read: Foo is kept and Link is not.
C22_LinkDroppedFooKept ==
  /\ op.name = "extract_imported_jsx_components"
  /\ \E e1, e2 \in OpeningElements(op.code) : e1.segs = <<"Link">> /\ e2.segs = <<"Foo">>
  /\ Str("Foo") \in Range(out)
  /\ Str("Link") \notin Range(out)

\* C24: a member usage with more than two segments (A.B.C) is canonicalized
\* to a two-segment dotted name: extract_imported_jsx_components returns a
\* two-segment name for it, and find_presence_calls treats it like the
\* two-segment usage of the same module and component.
C24_LongMemberUsageKept ==
  /\ op.name = "extract_imported_jsx_components" =>
       \A element \in OpeningElements(op.code) :
         Len(element.segs) > 2 =>
           \E i \in 1..Len(out) :
             /\ Len(SplitDot(out[i])) = 2
             /\ SplitDot(out[i])[1] = Str(element.segs[1])
  /\ (op.name = "find_presence_calls" /\ Len(SplitDot(op.jsx_component)) > 2) =>
       \E k \in 2..Len(SplitDot(op.jsx_component)) : \E listing \in ListingOrders(fs) :
         out = FindPresenceCalls(fs, op.code,
                 Dotted(SplitDot(op.jsx_component)[1], SplitDot(op.jsx_component)[k]),
                 op.file_path, listing)

\* The node of an index re-exports the name from a source of its own.
IsReExportOf(node, name) ==
  /\ node.kind = "ExportNamedDeclaration"
  /\ node.source # NoSource
  /\ \E k \in 1..Len(node.specifiers) : Str(node.specifiers[k]) = name

\* The specifiers from which the index imports the identifier.
ImportSpecifiersOf(src, ident) ==
  {src.nodes[i].source :
     i \in {j \in 1..Len(src.nodes) :
              /\ src.nodes[j].kind = "ImportDeclaration"
              /\ \E k \in 1..Len(src.nodes[j].specifiers) :
                   Str(src.nodes[j].specifiers[k]) = ident}}

\* The entries of an object-valued declaration that have the name as key
\* and an identifier imported in the index as value.
ObjectEntriesOf(src, node, name) ==
  IF node.kind = "VariableDeclarator" /\ node.init.kind = "ObjectExpression"
  THEN {k \in 1..Len(node.init.properties) :
          /\ Str(node.init.properties[k].key) = name
          /\ node.init.properties[k].value.kind = "Identifier"
          /\ ImportSpecifiersOf(src, node.init.properties[k].value.text) # {}}
  ELSE {}

\* The positions of the candidates for the name in the index, in the order
\* of the traversal.
Candidates(src, name) ==
  {i \in 1..Len(src.nodes) :
     IsReExportOf(src.nodes[i], name) \/ ObjectEntriesOf(src, src.nodes[i], name) # {}}

\* The specifiers a candidate stands for.
CandidateSpecifiers(src, node, name) ==
  IF IsReExportOf(node, name) THEN {node.source}
  ELSE UNION {ImportSpecifiersOf(src, node.init.properties[k].value.text) :
                k \in ObjectEntriesOf(src, node, name)}

FirstCandidate(src, name) ==
  src.nodes[CHOOSE i \in Candidates(src, name) : \A j \in Candidates(src, name) : i <= j]

\* The source files directly inside the directory of a module path.
FilesOfModule(tree, module_path) ==
  IF module_path.loc = "src" /\ module_path.leaf = "file"
  THEN {SrcFile(s) : s \in {t \in Stems(tree) : IsFile(tree, SrcFile(t))}}
  ELSE {f \in {SrcIndex(module_path.stem)} : Exists(tree, f)}

\* The index files the import of a name of the text leads to.
ModuleFiles(tree, src, file, name) ==
  UNION {ImportedFiles(tree, src, file, local) :
           local \in {binding \in RootBindings(src) : Str(binding) = name}}

\* The marker calls found by scanning the files.
CallsOfFiles(tree, files) ==
  UNION {Range(FindCallsInFile(tree, f).val) :
           f \in {g \in files : FindCallsInFile(tree, g).tag = "Ok"}}

\* C23: resolve_component_from_index(index, P) returns the resolution,
\* relative to the index file, of the specifier of the first candidate in
\* traversal order: a re-export of P with a source of its own, or an
\* object-valued declaration with key P whose value is an identifier
\* imported in the index; an export of P without source and an object value
\* that is no imported identifier are passed over; without a candidate it
\* returns an error, and find_presence_calls then scans every source file
\* directly inside the module directory.
C23_IndexResolution ==
  /\ (/\ op.name = "resolve_component_from_index"
      /\ ReadToString(fs, op.index_file_path).tag = "Ok"
      /\ ReadToString(fs, op.index_file_path).val.parses) =>
       IF Candidates(ReadToString(fs, op.index_file_path).val, op.component_name) = {}
       THEN out = Err
       ELSE \E spec \in CandidateSpecifiers(ReadToString(fs, op.index_file_path).val,
                          FirstCandidate(ReadToString(fs, op.index_file_path).val,
                                         op.component_name),
                          op.component_name) :
              out = ResolveImportPath(fs, spec, op.index_file_path)
  /\ (/\ op.name = "find_presence_calls"
      /\ Len(SplitDot(op.jsx_component)) = 2
      /\ ModuleFiles(fs, op.code, op.file_path, SplitDot(op.jsx_component)[1]) # {}
      /\ \A g \in ModuleFiles(fs, op.code, op.file_path, SplitDot(op.jsx_component)[1]) :
           /\ ReadToString(fs, g).tag = "Ok"
           /\ ReadToString(fs, g).val.parses
           /\ Candidates(ReadToString(fs, g).val, SplitDot(op.jsx_component)[2]) = {}) =>
       /\ out.tag = "Ok"
       /\ \E g \in ModuleFiles(fs, op.code, op.file_path, SplitDot(op.jsx_component)[1]) :
            Range(out.val) = CallsOfFiles(fs, FilesOfModule(fs, g))

\* resolve_component_from_index passed over an export of the name without a
\* source and answered with the file a later re-export of the name leads to.
C23_ExportWithoutSourcePassedOver ==
  /\ op.name = "resolve_component_from_index"
  /\ ReadToString(fs, op.index_file_path).tag = "Ok"
  /\ \E i \in 1..Len(ReadToString(fs, op.index_file_path).val.nodes) :
       /\ ReadToString(fs, op.index_file_path).val.nodes[i].kind = "ExportNamedDeclaration"
       /\ Len(ReadToString(fs, op.index_file_path).val.nodes[i].specifiers) = 1
       /\ Str(ReadToString(fs, op.index_file_path).val.nodes[i].specifiers[1])
            = op.component_name
       /\ ReadToString(fs, op.index_file_path).val.nodes[i].source = NoSource
       /\ \A j \in Candidates(ReadToString(fs, op.index_file_path).val, op.component_name) :
            i < j
  /\ out = Ok(SrcFile("c"))

====
